---- MODULE Spec2Model ----
(***************************************************************************)
(* State-machine model of the VoiceRAG browser client:                     *)
(*   - the application shell (App.tsx: AppContent), its realtime frame     *)
(*     delegates, the listening toggle, "new session" and "restart";       *)
(*   - the audio-augmented chat session (useChatWithAudio);                *)
(*   - the plain chat session (useChat).                                   *)
(*                                                                         *)
(* Conventions.                                                            *)
(*   Text is a sequence of one-character strings, so "" is <<>>, string   *)
(*   concatenation is \o and trim() really strips blanks.                  *)
(*   An optional value (null / undefined or a value) is None or Some(v).   *)
(*   A JavaScript value read out of parsed JSON is a tagged record         *)
(*   [t |-> "absent" | "null" | "array" | "object" | ..., v |-> ...].      *)
(*   React: a handler reads state through the closure of the render that   *)
(*   created it.  The variable view is that closure (the state as of the   *)
(*   last committed render); setState calls write the state variables,     *)
(*   functional updaters read the live state.  Render commits a new view.  *)
(***************************************************************************)
EXTENDS Integers, Sequences, FiniteSets, TLC

VARIABLES
    \* ---- AppContent state (App.tsx:146-168)
    isRecording, groundingFiles, selectedFile,
    currentUserTranscript, currentAssistantTranscript,
    completedUserMessages, completedAssistantMessages,
    ragSources, enhancedGrounding, isGroundingVisible, textMessage,
    callHistoryMetadata, isCallHistoryVisible,
    isContentSafetyVisible, contentSafetyDetails,
    \* ---- useChatWithAudio state (useSpeechToText.tsx:220-226)
    messages, isLoading, isGeneratingAudio,
    lastAudioData, lastAudioFormat, lastAudioTranscript, lastVoice,
    \* ---- useChat state (useChat.tsx:33-34)
    plainMessages, plainIsLoading,
    \* ---- environment of the hooks
    inflight,          \* chat requests issued and not yet completed
    sent,              \* log of the request bodies handed to fetch, in order
    errorCalls,        \* arguments the onError delegate was called with
    safetyCalls,       \* arguments the onContentSafetyError delegate was called with
    audioCalls,        \* number of onAudioReceived delegate calls
    pendingStart,      \* onToggleListening calls awaiting startAudioRecording()
    pendingStop,       \* onToggleListening calls awaiting stopAudioRecording()
    sessionStarted,    \* startSession() has been called
    recorderActive,    \* the audio capture session is capturing
    playerQueue,       \* chunks queued in the audio playback session
    unhandled,         \* a rejected promise escaped a handler
    \* ---- React
    view,              \* state captured by the closures of the last render
    lastEvent,         \* the handler that ran last, with its input
    \* ---- telemetry panel (App.tsx:153, telemetry-panel.tsx:65-68)
    isTelemetryVisible, telemetryData, telemetryIsLoading,
    telemetryPending,  \* fetches of /api/telemetry issued and not yet settled
    telemetryFetches,  \* number of fetches of /api/telemetry issued so far
    clock,             \* time elapsed, in timer periods
    \* ---- theme provider (useSpeechToText.tsx:392-396)
    theme,
    storedTheme,       \* localStorage 'app-theme'
    bodyClassName,     \* document.body.className, as its list of classes
    themeMounted,      \* the provider has been constructed
    \* ---- voice settings hook (part_000:8-9)
    selectedTextVoice,
    selectedRealtimeVoice,
    storedTextVoice,       \* localStorage 'voicerag-text-voice-preference'
    storedRealtimeVoice,   \* localStorage 'voicerag-realtime-voice-preference'
    voiceSettingsMounted,  \* the hook has been constructed
    voiceNotified,         \* body of the last POST /api/voice-settings
    \* ---- transcript panel (transcript-panel.tsx:332-343)
    panelUserMessages,              \* prop userMessages
    panelAssistantMessages,         \* prop assistantMessages
    panelCurrentUserInput,          \* prop currentUserInput
    panelCurrentAssistantResponse,  \* prop currentAssistantResponse
    transcriptMessages,             \* state messages
    transcriptExport,               \* the document last handed to the browser
    transcriptAlerts,               \* 1 once the nothing-to-download notice was shown
    \* ---- speech-to-text hook (useSpeechToText.tsx:18-23) and its recognizer
    speechIsListening,
    speechTranscript,
    speechInterimTranscript,
    speechSupported,          \* recognitionRef.current is set
    recognizerState,          \* "idle", "starting", "active" or "stopping"
    recognizerStartCalls,     \* calls of start() on the recognizer
    recognizerInvalidStarts,  \* those made while it was started and not ended
    recognizerStopCalls,      \* calls of stop() on the recognizer
    recognizerResults,        \* result events delivered
    \* ---- dialog primitive (part_002:10-31)
    dialogOpen,               \* per instance: prop open
    dialogPreviousOverflow,   \* per instance: previousOverflow of its live effect
    leakedEscapeHandlers,     \* handlers bound by effects whose cleanup was lost
    bodyOverflow,             \* document.body.style.overflow
    overflowAtLoad,           \* its value before any dialog was opened
    \* ---- orchestration scripts (part_014:1-51, part_013:1-35)
    scriptEntry,      \* the script that was run: "start.sh" or "write_env.sh"
    azdInstalled,     \* command -v azd succeeds
    envFile,          \* app/backend/.env: absent, or its lines
    envPc,            \* write_env.sh: 0 not run, else the next line of 20-35
    envExit,          \* write_env.sh: its exit code once it has ended
    startPc,          \* start.sh: the step it is at
    lastStatus,       \* start.sh: $?
    startExit,        \* start.sh: its exit code once it has ended
    scriptStderr,     \* names reported as missing
    backendStarted,   \* app/backend/app.py was launched
    apiStarted,       \* app/api/main.py was launched
    failedSteps,      \* the steps that have failed in this run
    \* ---- question-capture widget (voice-selector.tsx:134-225)
    isCapturing,               \* useState(false), voice-selector.tsx:137
    capturedQuestions,         \* number of entries of the captured-question log
    captureIsListening,        \* the hook's isListening (useSpeechToText.tsx:18)
    captureInterimTranscript,  \* the hook's interim text: 0 for "", else a text
    captureView,               \* the widget's state as of its last committed render
    recognizers,               \* the recognizer objects the hook's effect created
    recognitionRef,            \* recognitionRef.current (useSpeechToText.tsx:23)
    autoStopTimeout            \* the pending auto-stop timeout: ticks left, if set

shellVars == <<isRecording, groundingFiles, selectedFile,
               currentUserTranscript, currentAssistantTranscript,
               completedUserMessages, completedAssistantMessages,
               ragSources, enhancedGrounding, isGroundingVisible, textMessage,
               callHistoryMetadata, isCallHistoryVisible,
               isContentSafetyVisible, contentSafetyDetails>>
chatVars  == <<messages, isLoading, isGeneratingAudio,
               lastAudioData, lastAudioFormat, lastAudioTranscript, lastVoice>>
plainVars == <<plainMessages, plainIsLoading>>
netVars   == <<inflight, sent, errorCalls, safetyCalls, audioCalls>>
audioVars == <<pendingStart, pendingStop, sessionStarted, recorderActive,
               playerQueue, unhandled>>
coreVars  == <<shellVars, chatVars, plainVars, netVars, audioVars, view>>
telemetryVars == <<isTelemetryVisible, telemetryData, telemetryIsLoading,
                   telemetryPending, telemetryFetches, clock>>
themeVars == <<theme, storedTheme, bodyClassName, themeMounted>>
voiceSettingsVars ==
    <<selectedTextVoice, selectedRealtimeVoice, storedTextVoice,
      storedRealtimeVoice, voiceSettingsMounted, voiceNotified>>
transcriptPanelVars ==
    <<panelUserMessages, panelAssistantMessages, panelCurrentUserInput,
      panelCurrentAssistantResponse, transcriptMessages, transcriptExport,
      transcriptAlerts>>
speechVars ==
    <<speechIsListening, speechTranscript, speechInterimTranscript, speechSupported,
      recognizerState, recognizerStartCalls, recognizerInvalidStarts,
      recognizerStopCalls, recognizerResults>>
dialogVars ==
    <<dialogOpen, dialogPreviousOverflow, leakedEscapeHandlers, bodyOverflow,
      overflowAtLoad>>
scriptVars ==
    <<scriptEntry, azdInstalled, envFile, envPc, envExit, startPc, lastStatus,
      startExit, scriptStderr, backendStarted, apiStarted, failedSteps>>
captureVars ==
    <<isCapturing, capturedQuestions, captureIsListening, captureInterimTranscript,
      captureView, recognizers, recognitionRef, autoStopTimeout>>
componentVars ==
    <<telemetryVars, themeVars, voiceSettingsVars, transcriptPanelVars, speechVars,
      dialogVars, scriptVars, captureVars>>
vars == <<shellVars, chatVars, plainVars, netVars, audioVars, view, lastEvent,
          componentVars>>

----------------------------------------------------------------------------
(* Bounds of the model *)

MaxTranscript == 2     \* characters accumulated in the in-flight assistant transcript
MaxCompleted  == 2     \* entries in each completed-transcript list
MaxFiles      == 3     \* entries in the citation list
MaxQueue      == 2     \* chunks queued for playback
MaxPending    == 2     \* listening-toggle calls awaiting the recorder
MaxSends      == 2     \* chat requests issued in the specification of both chat sessions
MaxItems      == 1     \* entries of each kind of content in the shell specification
MaxRecognizers == 4    \* recognizer objects of the capture widget alive at once
MaxQuestions  == 1     \* questions the capture widget has captured
MaxChatSends  == 4     \* chat requests issued in the text-mode specification

----------------------------------------------------------------------------
(* Values *)

None    == <<>>
Some(x) == <<x>>

Truthy(x) == x.t \in {"array", "object"}
IsArray(x) == x.t = "array"

RECURSIVE TrimLeft(_)
TrimLeft(s) == IF s # <<>> /\ Head(s) = " " THEN TrimLeft(Tail(s)) ELSE s
RECURSIVE TrimRight(_)
TrimRight(s) == IF s # <<>> /\ s[Len(s)] = " "
                THEN TrimRight(SubSeq(s, 1, Len(s) - 1)) ELSE s
\* String.prototype.trim
Trim(s) == TrimRight(TrimLeft(s))

\* Array.prototype.includes
Includes(arr, x) == \E i \in 1..Len(arr) : arr[i] = x

----------------------------------------------------------------------------
(* React *)

CurrentView ==
    [isRecording |-> isRecording,
     currentAssistantTranscript |-> currentAssistantTranscript,
     completedUserMessages |-> completedUserMessages,
     completedAssistantMessages |-> completedAssistantMessages,
     textMessage |-> textMessage,
     messages |-> messages,
     isLoading |-> isLoading,
     isGeneratingAudio |-> isGeneratingAudio,
     plainMessages |-> plainMessages,
     plainIsLoading |-> plainIsLoading]

\* The closures in use are those of the current state: React has committed.
Committed == view = CurrentView

AppInit ==
    /\ isRecording = FALSE
    /\ groundingFiles = <<>>
    /\ selectedFile = None
    /\ currentUserTranscript = <<>>
    /\ currentAssistantTranscript = <<>>
    /\ completedUserMessages = <<>>
    /\ completedAssistantMessages = <<>>
    /\ ragSources = <<>>
    /\ enhancedGrounding = None
    /\ isGroundingVisible = FALSE
    /\ textMessage = <<>>
    /\ callHistoryMetadata = None
    /\ isCallHistoryVisible = FALSE
    /\ isContentSafetyVisible = FALSE
    /\ contentSafetyDetails = None
    /\ messages = <<>>
    /\ isLoading = FALSE
    /\ isGeneratingAudio = FALSE
    /\ lastAudioData = None
    /\ lastAudioFormat = None
    /\ lastAudioTranscript = None
    /\ lastVoice = None
    /\ plainMessages = <<>>
    /\ plainIsLoading = FALSE
    /\ inflight = {}
    /\ sent = <<>>
    /\ errorCalls = <<>>
    /\ safetyCalls = <<>>
    /\ audioCalls = 0
    /\ pendingStart = 0
    /\ pendingStop = 0
    /\ sessionStarted = FALSE
    /\ recorderActive = FALSE
    /\ playerQueue = 0
    /\ unhandled = FALSE
    /\ view = CurrentView
    /\ lastEvent = [type |-> "init"]

\* The components below the shell as they are constructed, with nothing in
\* the browser's storage.
TelemetryInit ==
    /\ isTelemetryVisible = FALSE
    /\ telemetryData = None
    /\ telemetryIsLoading = FALSE
    /\ telemetryPending = 0
    /\ telemetryFetches = 0
    /\ clock = 0

\* Before the theme provider is constructed its state does not exist; theme
\* holds the default until then.
ThemeInit ==
    /\ theme = "glass"
    /\ storedTheme = None
    /\ bodyClassName = <<>>
    /\ themeMounted = FALSE

\* The voice settings before the hook is constructed, on empty storage.
VoiceSettingsInit ==
    /\ selectedTextVoice = "alloy"
    /\ selectedRealtimeVoice = "alloy"
    /\ storedTextVoice = None
    /\ storedRealtimeVoice = None
    /\ voiceSettingsMounted = FALSE
    /\ voiceNotified = None

\* The transcript panel as first rendered: default props, empty list.
TranscriptPanelInit ==
    /\ panelUserMessages = <<>>
    /\ panelAssistantMessages = <<>>
    /\ panelCurrentUserInput = ""
    /\ panelCurrentAssistantResponse = ""
    /\ transcriptMessages = <<>>
    /\ transcriptExport = None
    /\ transcriptAlerts = 0

\* The speech-to-text hook after its effect has run, in a browser with
\* (supported) or without a recognizer.
SpeechInit(supported) ==
    /\ speechIsListening = FALSE
    /\ speechTranscript = <<>>
    /\ speechInterimTranscript = <<>>
    /\ speechSupported = supported
    /\ recognizerState = "idle"
    /\ recognizerStartCalls = 0
    /\ recognizerInvalidStarts = 0
    /\ recognizerStopCalls = 0
    /\ recognizerResults = 0

\* Every dialog closed, on a page whose body overflow is `overflow`.
DialogsInit(overflow) ==
    /\ dialogOpen = [d \in {"help", "techStack", "ragSource"} |-> FALSE]
    /\ dialogPreviousOverflow = [d \in {"help", "techStack", "ragSource"} |-> None]
    /\ leakedEscapeHandlers = 0
    /\ bodyOverflow = overflow
    /\ overflowAtLoad = overflow

\* A script about to be run: `entry` is the one invoked, `file` the
\* environment file as found, `azd` whether azd is installed.
ScriptsInit(entry, file, azd) ==
    /\ scriptEntry = entry
    /\ azdInstalled = azd
    /\ envFile = file
    /\ envPc = 0
    /\ envExit = None
    /\ startPc = "check_env"
    /\ lastStatus = 0
    /\ startExit = None
    /\ scriptStderr = <<>>
    /\ backendStarted = FALSE
    /\ apiStarted = FALSE
    /\ failedSteps = {}

\* A recognizer object: not constructed (or no longer referenced), or
\* constructed and not started.
FreeRecognizer == [state |-> "free", stopRequested |-> FALSE, age |-> 0]
IdleRecognizer == [state |-> "idle", stopRequested |-> FALSE, age |-> 0]

\* What a render of the capture widget reads.
CaptureCurrentView ==
    [isCapturing |-> isCapturing,
     isListening |-> captureIsListening,
     interimTranscript |-> captureInterimTranscript,
     capturedQuestions |-> capturedQuestions]

\* The capture widget once mounted in a browser that supports recognition:
\* the hook's effect has constructed one recognizer.
CaptureInit ==
    /\ isCapturing = FALSE
    /\ capturedQuestions = 0
    /\ captureIsListening = FALSE
    /\ captureInterimTranscript = 0
    /\ captureView = CaptureCurrentView
    /\ recognizers = [i \in 1..MaxRecognizers |->
                         IF i = 1 THEN IdleRecognizer ELSE FreeRecognizer]
    /\ recognitionRef = 1
    /\ autoStopTimeout = None

ComponentsInit ==
    /\ TelemetryInit
    /\ ThemeInit
    /\ VoiceSettingsInit
    /\ TranscriptPanelInit
    /\ SpeechInit(TRUE)
    /\ DialogsInit("")
    /\ ScriptsInit("start.sh", None, TRUE)
    /\ CaptureInit

Init == AppInit /\ ComponentsInit

\* React re-renders AppContent and the hooks: every closure is recreated over
\* the current state.
Render ==
    /\ ~Committed
    /\ view' = CurrentView
    /\ UNCHANGED componentVars
    /\ lastEvent' = [type |-> "render"]
    /\ UNCHANGED <<shellVars, chatVars, plainVars, netVars, audioVars>>

----------------------------------------------------------------------------
(* The audio and realtime hooks, by the contract their call sites rely on *)

\* useRealTime().startSession: the session is open and frames can arrive.
StartSession == sessionStarted' = TRUE

\* useAudioPlayer(): play queues a chunk, stop halts playback and drops what
\* is queued, reset starts playback afresh.
PlayAudio        == playerQueue' = playerQueue + 1
StopAudioPlayer  == playerQueue' = 0
ResetAudioPlayer == playerQueue' = 0

\* useAudioRecorder(): start resolves once capture is active, stop once it
\* is torn down; stop is a no-op when capture is not active.
RecorderStarted == recorderActive' = TRUE
RecorderStopped == recorderActive' = FALSE

----------------------------------------------------------------------------
(* Realtime frames: payload values *)

Absent == [t |-> "absent"]
JsNull == [t |-> "null"]
Arr(s) == [t |-> "array", v |-> s]
Obj(r) == [t |-> "object", v |-> r]

\* Retrieval sources ({chunk_id, title, chunk}); the second has an empty title.
Source1 == [chunk_id |-> "c1", title |-> <<"T">>, chunk |-> "k1"]
Source2 == [chunk_id |-> "c2", title |-> <<>>, chunk |-> "k2"]
Info    == Obj([status |-> "success"])

\* Call-history entries ({customer, calls}).
History1 == [customer |-> "Dupont", calls |-> <<"call1">>]
History2 == [customer |-> "Martin", calls |-> <<>>]

\* RAG sources carried by the __METADATA__ marker.
Rag1 == [id |-> "a"]
Rag2 == [id |-> "b"]

ToolResultObject(gi, src, ch) ==
    [grounding_info |-> gi, sources |-> src, call_history |-> ch]

\* The raw tool_result string, by its shape: its body is a JSON document or
\* human-readable text, and the literal "__METADATA__: " occurs nowhere
\* ("none"), starts the last line, followed by a payload ("trailing"), or sits
\* inside a string of the JSON document ("instring").
JsonBody(obj) == [t |-> "json", v |-> obj]
TextBody      == [t |-> "text"]
NoMarker      == [t |-> "none"]
InString      == [t |-> "instring"]
Trailing(p)   == [t |-> "trailing", payload |-> p]
Invalid       == [t |-> "invalid"]
RawResult(body, marker) == [body |-> body, marker |-> marker]

ToolResults == <<
    \* 1: enhanced shape with two sources
    RawResult(JsonBody(ToolResultObject(Info, Arr(<<Source1, Source2>>), Absent)), NoMarker),
    \* 2: enhanced shape without sources, two customers' call history
    RawResult(JsonBody(ToolResultObject(Info, Absent, Arr(<<History1, History2>>))), NoMarker),
    \* 3: legacy shape, a bare sources array
    RawResult(JsonBody(ToolResultObject(Absent, Arr(<<Source1>>), Absent)), NoMarker),
    \* 4: grounding_info: null beside a sources array, empty call history
    RawResult(JsonBody(ToolResultObject(JsNull, Arr(<<Source2>>), Arr(<<>>))), NoMarker),
    \* 5: enhanced shape whose sources is not an array
    RawResult(JsonBody(ToolResultObject(Info, Obj([n |-> 1]), Arr(<<History1>>))), NoMarker),
    \* 6: sources not an array, the marker text inside a JSON string
    RawResult(JsonBody(ToolResultObject(Absent, Obj([n |-> 1]), Arr(<<History2>>))), InString),
    \* 7: human-readable text followed by the marker line with one RAG source
    RawResult(TextBody, Trailing(Arr(<<Rag1>>))),
    \* 8: human-readable text, no marker
    RawResult(TextBody, NoMarker),
    \* 9: a JSON document followed by the marker line with two RAG sources
    RawResult(JsonBody(ToolResultObject(Absent, Arr(<<Source1>>), Absent)), Trailing(Arr(<<Rag1, Rag2>>))),
    \* 10: human-readable text followed by a marker line that is not JSON
    RawResult(TextBody, Trailing(Invalid)),
    \* 11: call history that is an object, not an array
    RawResult(JsonBody(ToolResultObject(Absent, Absent, Obj([n |-> 1]))), NoMarker),
    \* 12: human-readable text followed by a marker line holding a JSON object
    RawResult(TextBody, Trailing(Obj([n |-> 1]))) >>

\* Transcript deltas (message.delta, possibly missing) and user transcripts.
Deltas      == << <<>>, <<"a">> >>
Transcripts == << <<>>, <<"u">> >>

----------------------------------------------------------------------------
(* Realtime frame delegates (App.tsx:189-299) *)

\* JSON.parse(message.tool_result): a document followed by a marker line, or
\* plain text, is not JSON.
\* Variant: a parser that accepts a JSON document followed by further text.
ParseToolResultPrefix(raw) ==
    IF raw.body.t = "json"
    THEN [ok |-> TRUE, value |-> raw.body.v]
    ELSE [ok |-> FALSE]

ParseToolResult(raw) ==
    IF raw.body.t = "json" /\ raw.marker.t # "trailing"
    THEN [ok |-> TRUE, value |-> raw.body.v]
    ELSE [ok |-> FALSE]

\* toolResponseText.match(/__METADATA__: (.+)$/): the text from the marker to
\* the end of the string.  When the marker sits inside a string of a JSON
\* document, that text runs on through the closing quote of the string and is
\* never JSON itself.
MetadataMatch(raw) ==
    CASE raw.marker.t = "trailing" -> Some(raw.marker.payload)
      [] raw.marker.t = "instring" -> Some(Invalid)
      [] OTHER -> None

\* JSON.parse(metadataMatch[1])
ParseMetadata(p) ==
    IF p.t = "invalid" THEN [ok |-> FALSE] ELSE [ok |-> TRUE, value |-> p]

EnhancedFile(x) ==
    [id |-> x.chunk_id,
     name |-> IF x.title # <<>> THEN x.title ELSE <<"Document sans titre">>,
     content |-> x.chunk]
\* Variant: the legacy mapping with id and content taken from the wrong fields.
LegacyFileSwapped(x) == [id |-> x.chunk, name |-> x.title, content |-> x.chunk_id]
LegacyFile(x) == [id |-> x.chunk_id, name |-> x.title, content |-> x.chunk]

\* result.sources.map(...) of the two branches
EnhancedFiles(sources) == [i \in 1..Len(sources) |-> EnhancedFile(sources[i])]
LegacyFiles(sources)   == [i \in 1..Len(sources) |-> LegacyFile(sources[i])]

\* The inner try block (App.tsx:266-293).
ExtractMetadata(raw, result, st) ==
    LET ch  == result.call_history
        st1 == IF ch.t # "absent" /\ Truthy(ch) /\ IsArray(ch) /\ Len(ch.v) > 0
               THEN [st EXCEPT !.callHistoryMetadata = Some(ch.v[1]),
                               !.isCallHistoryVisible = TRUE]
               ELSE st
        m   == MetadataMatch(raw)
    IN  IF m = None THEN st1
        ELSE LET metadata == ParseMetadata(m[1]) IN
             IF ~metadata.ok THEN st1                      \* inner catch
             ELSE IF IsArray(metadata.value)
                  THEN [st1 EXCEPT !.ragSources = metadata.value.v]
                  ELSE st1

\* The whole handler (App.tsx:233-297), as the state it leaves from state st.
ToolResponseEffect(raw, st) ==
    LET parsed == ParseToolResult(raw) IN
    IF ~parsed.ok THEN st                                  \* outer catch
    ELSE
    LET result   == parsed.value
        enhanced == result.grounding_info.t # "absent" /\ Truthy(result.grounding_info)
        st1 == IF enhanced
               THEN [st EXCEPT !.enhancedGrounding = Some(result),
                               !.isGroundingVisible = TRUE]
               ELSE st
        \* result.sources.map is not a function: TypeError, outer catch
        mapThrows == enhanced /\ Truthy(result.sources) /\ ~IsArray(result.sources)
        st2 == IF enhanced
               THEN IF Truthy(result.sources) /\ IsArray(result.sources)
                    THEN [st1 EXCEPT !.groundingFiles = @ \o EnhancedFiles(result.sources.v)]
                    ELSE st1
               ELSE IF Truthy(result.sources) /\ IsArray(result.sources)
                    THEN [st1 EXCEPT !.groundingFiles = @ \o LegacyFiles(result.sources.v)]
                    ELSE st1
    IN  IF mapThrows THEN st1 ELSE ExtractMetadata(raw, result, st2)

GroundingState ==
    [enhancedGrounding |-> enhancedGrounding,
     isGroundingVisible |-> isGroundingVisible,
     groundingFiles |-> groundingFiles,
     callHistoryMetadata |-> callHistoryMetadata,
     isCallHistoryVisible |-> isCallHistoryVisible,
     ragSources |-> ragSources]

OnReceivedExtensionMiddleTierToolResponse(raw) ==
    /\ sessionStarted
    /\ LET e == ToolResponseEffect(raw, GroundingState) IN
        /\ Len(e.groundingFiles) <= MaxFiles
        /\ enhancedGrounding' = e.enhancedGrounding
        /\ isGroundingVisible' = e.isGroundingVisible
        /\ groundingFiles' = e.groundingFiles
        /\ callHistoryMetadata' = e.callHistoryMetadata
        /\ isCallHistoryVisible' = e.isCallHistoryVisible
        /\ ragSources' = e.ragSources
    /\ UNCHANGED componentVars
    /\ lastEvent' = [type |-> "tool_response", tool_result |-> raw]
    /\ UNCHANGED <<isRecording, selectedFile, currentUserTranscript,
                   currentAssistantTranscript, completedUserMessages,
                   completedAssistantMessages, textMessage,
                   isContentSafetyVisible, contentSafetyDetails>>
    /\ UNCHANGED <<chatVars, plainVars, netVars, audioVars, view>>

\* playAudio(message.delta): the playback session queues the chunk.
OnReceivedResponseAudioDelta ==
    /\ sessionStarted
    /\ playerQueue < MaxQueue
    /\ PlayAudio
    /\ UNCHANGED componentVars
    /\ lastEvent' = [type |-> "audio_delta"]
    /\ UNCHANGED <<pendingStart, pendingStop, sessionStarted, recorderActive, unhandled>>
    /\ UNCHANGED <<shellVars, chatVars, plainVars, netVars, view>>

OnReceivedResponseAudioTranscriptDelta(delta) ==
    /\ sessionStarted
    /\ Len(currentAssistantTranscript) + Len(delta) <= MaxTranscript
    /\ currentAssistantTranscript' = currentAssistantTranscript \o delta
    /\ UNCHANGED componentVars
    /\ lastEvent' = [type |-> "transcript_delta", delta |-> delta]
    /\ UNCHANGED <<isRecording, groundingFiles, selectedFile, currentUserTranscript,
                   completedUserMessages, completedAssistantMessages,
                   ragSources, enhancedGrounding, isGroundingVisible, textMessage,
                   callHistoryMetadata, isCallHistoryVisible,
                   isContentSafetyVisible, contentSafetyDetails>>
    /\ UNCHANGED <<chatVars, plainVars, netVars, audioVars, view>>

\* Variant: the delegate shows the transcribed text as the live user input.
TranscriptionCompletedShowsLiveInput(transcript) ==
    /\ sessionStarted
    /\ IF transcript # <<>>
       THEN /\ completedUserMessages' = Append(completedUserMessages, transcript)
            /\ currentUserTranscript' = transcript
       ELSE UNCHANGED <<completedUserMessages, currentUserTranscript>>
    /\ Len(completedUserMessages') <= MaxCompleted
    /\ UNCHANGED componentVars
    /\ lastEvent' = [type |-> "transcription_completed", transcript |-> transcript]
    /\ UNCHANGED <<isRecording, groundingFiles, selectedFile,
                   currentAssistantTranscript, completedAssistantMessages,
                   ragSources, enhancedGrounding, isGroundingVisible, textMessage,
                   callHistoryMetadata, isCallHistoryVisible,
                   isContentSafetyVisible, contentSafetyDetails>>
    /\ UNCHANGED <<chatVars, plainVars, netVars, audioVars, view>>

OnReceivedInputAudioTranscriptionCompleted(transcript) ==
    /\ sessionStarted
    /\ IF transcript # <<>>
       THEN /\ completedUserMessages' = Append(completedUserMessages, transcript)
            /\ currentUserTranscript' = <<>>
       ELSE UNCHANGED <<completedUserMessages, currentUserTranscript>>
    /\ Len(completedUserMessages') <= MaxCompleted
    /\ UNCHANGED componentVars
    /\ lastEvent' = [type |-> "transcription_completed", transcript |-> transcript]
    /\ UNCHANGED <<isRecording, groundingFiles, selectedFile,
                   currentAssistantTranscript, completedAssistantMessages,
                   ragSources, enhancedGrounding, isGroundingVisible, textMessage,
                   callHistoryMetadata, isCallHistoryVisible,
                   isContentSafetyVisible, contentSafetyDetails>>
    /\ UNCHANGED <<chatVars, plainVars, netVars, audioVars, view>>

\* Variant: the speech-started handler without the stopAudioPlayer() call.
SpeechStartedKeepsPlaying ==
    /\ sessionStarted
    /\ currentUserTranscript' = <<>>
    /\ UNCHANGED componentVars
    /\ lastEvent' = [type |-> "speech_started"]
    /\ UNCHANGED <<isRecording, groundingFiles, selectedFile,
                   currentAssistantTranscript, completedUserMessages,
                   completedAssistantMessages,
                   ragSources, enhancedGrounding, isGroundingVisible, textMessage,
                   callHistoryMetadata, isCallHistoryVisible,
                   isContentSafetyVisible, contentSafetyDetails>>
    /\ UNCHANGED <<audioVars, chatVars, plainVars, netVars, view>>

OnReceivedInputAudioBufferSpeechStarted ==
    /\ sessionStarted
    /\ currentUserTranscript' = <<>>
    /\ StopAudioPlayer
    /\ UNCHANGED componentVars
    /\ lastEvent' = [type |-> "speech_started"]
    /\ UNCHANGED <<isRecording, groundingFiles, selectedFile,
                   currentAssistantTranscript, completedUserMessages,
                   completedAssistantMessages,
                   ragSources, enhancedGrounding, isGroundingVisible, textMessage,
                   callHistoryMetadata, isCallHistoryVisible,
                   isContentSafetyVisible, contentSafetyDetails>>
    /\ UNCHANGED <<pendingStart, pendingStop, sessionStarted, recorderActive, unhandled>>
    /\ UNCHANGED <<chatVars, plainVars, netVars, view>>

\* The updater closes over the render's currentAssistantTranscript and is
\* applied to the live completed list.
OnReceivedResponseDone ==
    /\ sessionStarted
    /\ LET cur == view.currentAssistantTranscript IN
       completedAssistantMessages' =
           IF cur # <<>> /\ ~Includes(completedAssistantMessages, cur)
           THEN Append(completedAssistantMessages, cur)
           ELSE completedAssistantMessages
    /\ Len(completedAssistantMessages') <= MaxCompleted
    /\ currentAssistantTranscript' = <<>>
    /\ UNCHANGED componentVars
    /\ lastEvent' = [type |-> "response_done"]
    /\ UNCHANGED <<isRecording, groundingFiles, selectedFile, currentUserTranscript,
                   completedUserMessages,
                   ragSources, enhancedGrounding, isGroundingVisible, textMessage,
                   callHistoryMetadata, isCallHistoryVisible,
                   isContentSafetyVisible, contentSafetyDetails>>
    /\ UNCHANGED <<chatVars, plainVars, netVars, audioVars, view>>

----------------------------------------------------------------------------
(* The listening toggle (App.tsx:326-340) *)

\* The calls onToggleListening makes, in the order of its statements: up to
\* the await of the start branch (328-329) and after it (330-332), up to the
\* await of the stop branch (334) and after it (335-338).
ToggleStartCalls == <<"startSession", "startAudioRecording">>
ToggleStartedCalls == <<"resetAudioPlayer", "setIsRecording(true)">>
ToggleStopCalls == <<"stopAudioRecording">>
\* Variant: the recording flag is cleared before playback is stopped.
ToggleStoppedCallsFlagFirst ==
    <<"setIsRecording(false)", "stopAudioPlayer", "inputAudioBufferClear">>
ToggleStoppedCalls ==
    <<"stopAudioPlayer", "inputAudioBufferClear", "setIsRecording(false)">>

\* onToggleListening up to its await.  The branch is chosen by the closure's
\* isRecording.
ToggleEffect ==
    IF ~view.isRecording
    THEN /\ StartSession
         /\ pendingStart' = pendingStart + 1               \* await startAudioRecording()
         /\ UNCHANGED pendingStop
    ELSE /\ pendingStop' = pendingStop + 1                 \* await stopAudioRecording()
         /\ UNCHANGED <<sessionStarted, pendingStart>>

OnToggleListening ==
    /\ Committed
    /\ pendingStart + pendingStop < MaxPending
    /\ ToggleEffect
    /\ UNCHANGED componentVars
    /\ lastEvent' = [type |-> "toggle", start |-> ~view.isRecording,
                     calls |-> IF ~view.isRecording THEN ToggleStartCalls
                               ELSE ToggleStopCalls]
    /\ UNCHANGED <<recorderActive, playerQueue, unhandled>>
    /\ UNCHANGED <<shellVars, chatVars, plainVars, netVars, view>>

\* startAudioRecording() resolved: resetAudioPlayer(); setIsRecording(true)
StartRecordingResolved ==
    /\ pendingStart > 0
    /\ pendingStart' = pendingStart - 1
    /\ RecorderStarted
    /\ ResetAudioPlayer
    /\ isRecording' = TRUE
    /\ UNCHANGED componentVars
    /\ lastEvent' = [type |-> "start_resolved", calls |-> ToggleStartedCalls]
    /\ UNCHANGED <<pendingStop, sessionStarted, unhandled>>
    /\ UNCHANGED <<groundingFiles, selectedFile,
                   currentUserTranscript, currentAssistantTranscript,
                   completedUserMessages, completedAssistantMessages,
                   ragSources, enhancedGrounding, isGroundingVisible, textMessage,
                   callHistoryMetadata, isCallHistoryVisible,
                   isContentSafetyVisible, contentSafetyDetails>>
    /\ UNCHANGED <<chatVars, plainVars, netVars, view>>

\* startAudioRecording() rejected (no microphone): the rest of the handler
\* does not run and the rejection is handled by nobody.
StartRecordingRejected ==
    /\ pendingStart > 0
    /\ pendingStart' = pendingStart - 1
    /\ unhandled' = TRUE
    /\ UNCHANGED componentVars
    /\ lastEvent' = [type |-> "start_rejected", calls |-> <<>>]
    /\ UNCHANGED <<pendingStop, sessionStarted, recorderActive, playerQueue>>
    /\ UNCHANGED <<shellVars, chatVars, plainVars, netVars, view>>

\* stopAudioRecording() resolved: stopAudioPlayer(); inputAudioBufferClear();
\* setIsRecording(false)
StopRecordingResolved ==
    /\ pendingStop > 0
    /\ pendingStop' = pendingStop - 1
    /\ RecorderStopped
    /\ StopAudioPlayer
    /\ isRecording' = FALSE
    /\ UNCHANGED componentVars
    /\ lastEvent' = [type |-> "stop_resolved", calls |-> ToggleStoppedCalls]
    /\ UNCHANGED <<pendingStart, sessionStarted, unhandled>>
    /\ UNCHANGED <<groundingFiles, selectedFile,
                   currentUserTranscript, currentAssistantTranscript,
                   completedUserMessages, completedAssistantMessages,
                   ragSources, enhancedGrounding, isGroundingVisible, textMessage,
                   callHistoryMetadata, isCallHistoryVisible,
                   isContentSafetyVisible, contentSafetyDetails>>
    /\ UNCHANGED <<chatVars, plainVars, netVars, view>>

----------------------------------------------------------------------------
(* Shell controls: text draft, citations, new session, restart *)

\* Drafts the user can type and messages a caller can pass to sendMessage.
Drafts == << <<" ", "h", "i">>, <<"y", "o", " ">>, <<" ">> >>

\* onChange of the text input (App.tsx:492)
OnTextChange(draft) ==
    /\ Committed
    /\ textMessage' = draft
    /\ UNCHANGED componentVars
    /\ lastEvent' = [type |-> "text_change"]
    /\ UNCHANGED <<isRecording, groundingFiles, selectedFile,
                   currentUserTranscript, currentAssistantTranscript,
                   completedUserMessages, completedAssistantMessages,
                   ragSources, enhancedGrounding, isGroundingVisible,
                   callHistoryMetadata, isCallHistoryVisible,
                   isContentSafetyVisible, contentSafetyDetails>>
    /\ UNCHANGED <<chatVars, plainVars, netVars, audioVars, view>>

\* GroundingFiles onSelected={setSelectedFile} (App.tsx:570)
OnFileSelected ==
    /\ Committed
    /\ \E i \in 1..Len(groundingFiles) : selectedFile' = Some(groundingFiles[i])
    /\ UNCHANGED componentVars
    /\ lastEvent' = [type |-> "file_selected"]
    /\ UNCHANGED <<isRecording, groundingFiles,
                   currentUserTranscript, currentAssistantTranscript,
                   completedUserMessages, completedAssistantMessages,
                   ragSources, enhancedGrounding, isGroundingVisible, textMessage,
                   callHistoryMetadata, isCallHistoryVisible,
                   isContentSafetyVisible, contentSafetyDetails>>
    /\ UNCHANGED <<chatVars, plainVars, netVars, audioVars, view>>

\* clearMessages of useChatWithAudio (useSpeechToText.tsx:346-352)
ClearMessages ==
    /\ messages' = <<>>
    /\ lastAudioData' = None
    /\ lastAudioFormat' = None
    /\ lastAudioTranscript' = None
    /\ lastVoice' = None

\* The setter calls shared by new session (App.tsx:599-610) and restart
\* (App.tsx:352-369).
ClearConversation ==
    /\ ClearMessages
    /\ completedUserMessages' = <<>>
    /\ completedAssistantMessages' = <<>>
    /\ currentUserTranscript' = <<>>
    /\ currentAssistantTranscript' = <<>>
    /\ textMessage' = <<>>
    /\ groundingFiles' = <<>>
    /\ selectedFile' = None
    /\ ragSources' = <<>>
    /\ enhancedGrounding' = None
    /\ callHistoryMetadata' = None
    /\ isCallHistoryVisible' = FALSE
    /\ UNCHANGED <<isRecording, isGroundingVisible, isContentSafetyVisible,
                   contentSafetyDetails, isLoading, isGeneratingAudio>>

\* Variant: a reset that leaves the recording alone.
StopNever == UNCHANGED <<sessionStarted, pendingStart, pendingStop>>

\* if (isRecording) onToggleListening()
StopIfRecording ==
    IF view.isRecording
    THEN ToggleEffect
    ELSE UNCHANGED <<sessionStarted, pendingStart, pendingStop>>

OnNewSessionClick ==
    /\ Committed
    /\ view.isRecording => pendingStart + pendingStop < MaxPending
    /\ ClearConversation
    /\ StopIfRecording
    /\ UNCHANGED componentVars
    /\ lastEvent' = [type |-> "new_session"]
    /\ UNCHANGED <<recorderActive, playerQueue, unhandled>>
    /\ UNCHANGED <<plainVars, netVars, view>>

\* Variant: a confirmation condition that looks at the text chat only.
NeedsConfirmationChatOnly == Len(view.messages) > 0

\* The condition under which restart asks for confirmation (App.tsx:345).
NeedsConfirmation ==
    \/ Len(view.messages) > 0
    \/ Len(view.completedUserMessages) > 0
    \/ Len(view.completedAssistantMessages) > 0

\* handleRestartConversation; answer is what the user replies to confirm(),
\* when it is shown.
HandleRestartConversation(answer) ==
    /\ Committed
    /\ view.isRecording => pendingStart + pendingStop < MaxPending
    /\ IF NeedsConfirmation /\ ~answer
       THEN UNCHANGED <<shellVars, chatVars, sessionStarted, pendingStart, pendingStop>>
       ELSE ClearConversation /\ StopIfRecording
    /\ UNCHANGED componentVars
    /\ lastEvent' = [type |-> "restart", prompted |-> NeedsConfirmation,
                     confirmed |-> NeedsConfirmation /\ answer]
    /\ UNCHANGED <<recorderActive, playerQueue, unhandled>>
    /\ UNCHANGED <<plainVars, netVars, view>>

----------------------------------------------------------------------------
(* Chat sessions: inputs *)

\* DEFAULT_VOICE of useVoiceSettings, the shell's selectedTextVoice.
DefaultVoice == "alloy"

\* Calls a consumer makes: sendMessage(message, generateAudio, voice).
Calls == <<
    [message |-> <<" ", "h", "i">>, generateAudio |-> TRUE,  voice |-> "alloy"],
    [message |-> <<"y", "o", " ">>, generateAudio |-> FALSE, voice |-> "coral"],
    [message |-> <<" ">>,           generateAudio |-> TRUE,  voice |-> "alloy"] >>

\* A ChatApiResponse payload.  An optional text field that is missing is <<>>
\* (missing and empty are both falsy and are treated alike by the code); error
\* and error_type are "" when missing.
Data(message, audio, format, transcript, error, errorType, details) ==
    [message |-> message, audio |-> audio, audio_format |-> format,
     audio_transcript |-> transcript, audio_id |-> <<>>,
     error |-> error, error_type |-> errorType, details |-> details]

Details == [reason |-> <<"r">>, action |-> <<"a">>, documentation |-> <<"d">>]

\* What a request can come back with.
Responses == <<
    \* 1: text and audio
    [t |-> "data", data |-> Data(<<"o", "k">>, <<"Q">>, <<"w", "a", "v">>, <<"t">>, "", "", None)],
    \* 2: audio only, no text, no format, no transcript
    [t |-> "data", data |-> Data(<<>>, <<"Q">>, <<>>, <<>>, "", "", None)],
    \* 3: an empty payload
    [t |-> "data", data |-> Data(<<>>, <<>>, <<>>, <<>>, "", "", None)],
    \* 4: an error field unrelated to content safety
    [t |-> "data", data |-> Data(<<"x">>, <<>>, <<>>, <<>>, "boom", "", None)],
    \* 5: content safety by error, with message and details
    [t |-> "data", data |-> Data(<<"n", "o">>, <<>>, <<>>, <<>>, "content_safety_violation", "", Some(Details))],
    \* 6: content safety by error_type alone, no message, no details
    [t |-> "data", data |-> Data(<<>>, <<>>, <<>>, <<>>, "", "content_filter", None)],
    \* 7: a non-2xx status
    [t |-> "http", status |-> "500"],
    \* 8: fetch rejects
    [t |-> "reject"],
    \* 9: the body is not JSON
    [t |-> "badjson"] >>


----------------------------------------------------------------------------
(* The audio-augmented chat session (useSpeechToText.tsx:219-365) *)

\* Variant: the history sent as the message objects themselves.
HistoryEntryUnprojected(msg) == msg

\* messages.map(msg => ({role: msg.role, content: msg.content}))
HistoryEntry(msg) == [role |-> msg.role, content |-> msg.content]
ConversationHistory(msgs) == [i \in 1..Len(msgs) |-> HistoryEntry(msgs[i])]

\* The Date of a message is the ordinal of the send that created it.
UserMessage(message, id) ==
    [role |-> "user", content |-> Trim(message), timestamp |-> id]

\* Variant: the early return that looks at the message only.
SendRefusedBlankOnly(message) == Trim(message) = <<>>

\* The early return (useSpeechToText.tsx:230).
SendRefused(message) == Trim(message) = <<>> \/ view.isLoading

\* sendMessage up to its await fetch(...).  messages and isLoading are those of
\* the closure (useCallback dependencies [messages, isLoading, ...]).
SendMessageWithAudio(message, generateAudio, voice) ==
    IF SendRefused(message)
    THEN UNCHANGED <<messages, isLoading, isGeneratingAudio, sent, inflight>>
    ELSE LET id == Len(sent) + 1 IN
         /\ messages' = Append(messages, UserMessage(message, id))
         /\ isLoading' = TRUE
         /\ isGeneratingAudio' = (generateAudio \/ isGeneratingAudio)
         /\ sent' = Append(sent,
                [hook |-> "audio",
                 body |-> [message |-> Trim(message),
                           history |-> ConversationHistory(view.messages),
                           generate_audio |-> generateAudio,
                           voice |-> voice]])
         /\ inflight' = inflight \cup
                {[id |-> id, hook |-> "audio", generateAudio |-> generateAudio,
                  voice |-> voice, userMessage |-> UserMessage(message, id),
                  before |-> messages]}

\* A consumer of the hook calls sendMessage of the render it holds.
ChatSend(call) ==
    /\ SendMessageWithAudio(call.message, call.generateAudio, call.voice)
    /\ UNCHANGED componentVars
    /\ lastEvent' = [type |-> "chat_send", call |-> call]
    /\ UNCHANGED <<lastAudioData, lastAudioFormat, lastAudioTranscript, lastVoice,
                   errorCalls, safetyCalls, audioCalls>>
    /\ UNCHANGED <<shellVars, plainVars, audioVars, view>>

\* The shell's send button and Enter key (App.tsx:493-511).
OnSendClick ==
    /\ Committed
    /\ Trim(view.textMessage) # <<>>
    /\ ~view.isGeneratingAudio
    /\ SendMessageWithAudio(view.textMessage, TRUE, DefaultVoice)
    /\ textMessage' = <<>>
    /\ UNCHANGED componentVars
    /\ lastEvent' = [type |-> "send_click"]
    /\ UNCHANGED <<lastAudioData, lastAudioFormat, lastAudioTranscript, lastVoice,
                   errorCalls, safetyCalls, audioCalls>>
    /\ UNCHANGED <<isRecording, groundingFiles, selectedFile,
                   currentUserTranscript, currentAssistantTranscript,
                   completedUserMessages, completedAssistantMessages,
                   ragSources, enhancedGrounding, isGroundingVisible,
                   callHistoryMetadata, isCallHistoryVisible,
                   isContentSafetyVisible, contentSafetyDetails>>
    /\ UNCHANGED <<plainVars, audioVars, view>>

\* Variant: content safety recognised by the error field alone.
ChatOutcomeErrorFieldOnly(o) ==
    CASE o.t = "reject"  -> [kind |-> "error", reason |-> <<"Failed to fetch">>]
      [] o.t = "http"    -> [kind |-> "error", reason |-> <<"HTTP error! status: ", o.status>>]
      [] o.t = "badjson" -> [kind |-> "error", reason |-> <<"Unexpected token">>]
      [] o.t = "data"    ->
            IF o.data.error = "content_safety_violation"
            THEN [kind |-> "safety"]
            ELSE IF o.data.error # ""
                 THEN [kind |-> "error", reason |-> <<o.data.error>>]
                 ELSE [kind |-> "success"]

\* What the try block makes of a fetch outcome (useSpeechToText.tsx:268-287).
ChatOutcome(o) ==
    CASE o.t = "reject"  -> [kind |-> "error", reason |-> <<"Failed to fetch">>]
      [] o.t = "http"    -> [kind |-> "error", reason |-> <<"HTTP error! status: ", o.status>>]
      [] o.t = "badjson" -> [kind |-> "error", reason |-> <<"Unexpected token">>]
      [] o.t = "data"    ->
            IF o.data.error = "content_safety_violation" \/ o.data.error_type = "content_filter"
            THEN [kind |-> "safety"]
            ELSE IF o.data.error # ""
                 THEN [kind |-> "error", reason |-> <<o.data.error>>]
                 ELSE [kind |-> "success"]

\* The argument of onContentSafetyError (useSpeechToText.tsx:276-281).
SafetyDetails(data) ==
    [message |-> IF data.message # <<>> THEN data.message
                 ELSE <<"Contenu non autorise detecte">>,
     reason |-> IF data.details = None THEN <<>> ELSE data.details[1].reason,
     action |-> IF data.details = None THEN <<>> ELSE data.details[1].action,
     documentation |-> IF data.details = None THEN <<>> ELSE data.details[1].documentation]

AssistantMessage(data, voice, id) ==
    [role |-> "assistant",
     content |-> IF data.message # <<>> THEN data.message
                 ELSE IF data.audio # <<>>
                      THEN IF data.audio_transcript # <<>> THEN data.audio_transcript
                           ELSE <<"Reponse audio generee">>
                      ELSE <<"No response received">>,
     timestamp |-> id,
     audio |-> data.audio,
     audioFormat |-> IF data.audio_format # <<>> THEN data.audio_format ELSE <<"mp3">>,
     audioTranscript |-> data.audio_transcript,
     audioId |-> data.audio_id,
     voice |-> voice]

\* Variant: an error message that does not carry the reason.
ErrorResponseWithoutReason(reason, id) ==
    [role |-> "assistant",
     content |-> <<"Sorry, I encountered an error: ">>,
     timestamp |-> id]

ErrorResponse(reason, id) ==
    [role |-> "assistant",
     content |-> <<"Sorry, I encountered an error: ">> \o reason,
     timestamp |-> id]

\* Variant: a finally block that clears the loading flag only.
ChatFinallyLoadingOnly ==
    /\ isLoading' = FALSE
    /\ UNCHANGED isGeneratingAudio

\* The finally block (useSpeechToText.tsx:338-341).
ChatFinally ==
    /\ isLoading' = FALSE
    /\ isGeneratingAudio' = FALSE

\* sendMessage from the point where fetch settles with outcome o, for the
\* request r: the rest of the try block, the catch block and the finally block.
ChatResolve(r, o) ==
    /\ r \in inflight
    /\ r.hook = "audio"
    /\ inflight' = inflight \ {r}
    /\ LET out == ChatOutcome(o) IN
       CASE out.kind = "safety" ->
              /\ safetyCalls' = Append(safetyCalls, SafetyDetails(o.data))
              \* the shell's delegate (App.tsx:182-186)
              /\ contentSafetyDetails' = Some(SafetyDetails(o.data))
              /\ isContentSafetyVisible' = TRUE
              /\ UNCHANGED <<messages, errorCalls, audioCalls, lastAudioData,
                             lastAudioFormat, lastAudioTranscript, lastVoice>>
         [] out.kind = "error" ->
              /\ errorCalls' = Append(errorCalls, out.reason)
              /\ messages' = Append(messages, ErrorResponse(out.reason, r.id))
              /\ UNCHANGED <<safetyCalls, audioCalls, contentSafetyDetails,
                             isContentSafetyVisible, lastAudioData,
                             lastAudioFormat, lastAudioTranscript, lastVoice>>
         [] out.kind = "success" ->
              /\ messages' = Append(messages, AssistantMessage(o.data, r.voice, r.id))
              /\ IF o.data.audio # <<>> /\ r.generateAudio
                 THEN /\ lastAudioData' = Some(o.data.audio)
                      /\ lastAudioFormat' = Some(IF o.data.audio_format # <<>>
                                                 THEN o.data.audio_format ELSE <<"mp3">>)
                      /\ lastAudioTranscript' = IF o.data.audio_transcript # <<>>
                                                THEN Some(o.data.audio_transcript) ELSE None
                      /\ lastVoice' = Some(r.voice)
                      /\ audioCalls' = audioCalls + 1
                 ELSE UNCHANGED <<lastAudioData, lastAudioFormat, lastAudioTranscript,
                                  lastVoice, audioCalls>>
              /\ UNCHANGED <<safetyCalls, errorCalls, contentSafetyDetails,
                             isContentSafetyVisible>>
    /\ ChatFinally
    /\ UNCHANGED componentVars
    /\ lastEvent' = [type |-> "chat_resolve", request |-> r, response |-> o]
    /\ UNCHANGED <<sent>>
    /\ UNCHANGED <<isRecording, groundingFiles, selectedFile,
                   currentUserTranscript, currentAssistantTranscript,
                   completedUserMessages, completedAssistantMessages,
                   ragSources, enhancedGrounding, isGroundingVisible, textMessage,
                   callHistoryMetadata, isCallHistoryVisible>>
    /\ UNCHANGED <<plainVars, audioVars, view>>

----------------------------------------------------------------------------
(* The plain chat session (useChat.tsx:32-123) *)

SendPlainMessage(message) ==
    IF Trim(message) = <<>> \/ view.plainIsLoading
    THEN UNCHANGED <<plainMessages, plainIsLoading, sent, inflight>>
    ELSE LET id == Len(sent) + 1 IN
         /\ plainMessages' = Append(plainMessages, UserMessage(message, id))
         /\ plainIsLoading' = TRUE
         /\ sent' = Append(sent,
                [hook |-> "plain",
                 body |-> [message |-> Trim(message),
                           history |-> ConversationHistory(view.plainMessages),
                           generate_audio |-> TRUE,
                           voice |-> "alloy"]])
         /\ inflight' = inflight \cup
                {[id |-> id, hook |-> "plain", generateAudio |-> TRUE,
                  voice |-> "alloy", userMessage |-> UserMessage(message, id),
                  before |-> plainMessages]}

PlainSend(message) ==
    /\ SendPlainMessage(message)
    /\ UNCHANGED componentVars
    /\ lastEvent' = [type |-> "plain_send", message |-> message]
    /\ UNCHANGED <<errorCalls, safetyCalls, audioCalls>>
    /\ UNCHANGED <<shellVars, chatVars, audioVars, view>>

\* useChat.tsx:71-79: only the status, the JSON parse and data.error decide.
PlainOutcome(o) ==
    CASE o.t = "reject"  -> [kind |-> "error", reason |-> <<"Failed to fetch">>]
      [] o.t = "http"    -> [kind |-> "error", reason |-> <<"HTTP error! status: ", o.status>>]
      [] o.t = "badjson" -> [kind |-> "error", reason |-> <<"Unexpected token">>]
      [] o.t = "data"    ->
            IF o.data.error # ""
            THEN [kind |-> "error", reason |-> <<o.data.error>>]
            ELSE [kind |-> "success"]

PlainAssistantMessage(data, id) ==
    [role |-> "assistant",
     content |-> IF data.message # <<>> THEN data.message ELSE <<"No response received">>,
     timestamp |-> id,
     audio |-> data.audio]

\* The finally block (useChat.tsx:108-110).
PlainFinally == plainIsLoading' = FALSE

PlainResolve(r, o) ==
    /\ r \in inflight
    /\ r.hook = "plain"
    /\ inflight' = inflight \ {r}
    /\ LET out == PlainOutcome(o) IN
       CASE out.kind = "success" ->
              /\ plainMessages' = plainMessages \o
                     <<r.userMessage, PlainAssistantMessage(o.data, r.id)>>
              /\ audioCalls' = IF o.data.audio # <<>> THEN audioCalls + 1 ELSE audioCalls
         [] out.kind = "error" ->
              /\ plainMessages' = plainMessages \o
                     <<r.userMessage, ErrorResponse(out.reason, r.id)>>
              /\ UNCHANGED audioCalls
    /\ PlainFinally
    /\ UNCHANGED componentVars
    /\ lastEvent' = [type |-> "plain_resolve", request |-> r, response |-> o]
    /\ UNCHANGED <<sent, errorCalls, safetyCalls>>
    /\ UNCHANGED <<shellVars, chatVars, audioVars, view>>

----------------------------------------------------------------------------
(* The telemetry panel (telemetry-panel.tsx:65-90, App.tsx:595, 625) *)

MaxFetches == 3       \* fetches of /api/telemetry issued
MaxElapsed == 2       \* timer periods that pass

\* What a fetch of /api/telemetry can come back with.
TelemetryOutcomes == <<
    [t |-> "ok", data |-> "T1"],
    [t |-> "ok", data |-> "T2"],
    [t |-> "http"],
    [t |-> "reject"] >>

\* Component state other than the telemetry panel's.
exceptTelemetry == <<themeVars, voiceSettingsVars, transcriptPanelVars, speechVars, dialogVars, scriptVars, captureVars>>

\* fetchTelemetryData up to its await (telemetry-panel.tsx:70-73).
FetchTelemetryData ==
    /\ telemetryIsLoading' = TRUE
    /\ telemetryFetches' = telemetryFetches + 1
    /\ telemetryPending' = telemetryPending + 1

\* Variant: the effect of an earlier iteration of the panel, which also
\* registers a timer that fetches every period while the panel is visible.
TimerFetchesWhileVisible ==
    IF isTelemetryVisible /\ telemetryFetches < MaxFetches
    THEN FetchTelemetryData
    ELSE UNCHANGED <<telemetryIsLoading, telemetryFetches, telemetryPending>>

\* What the panel's effect leaves to run as time passes: the effect
\* (telemetry-panel.tsx:85-90) registers no timer, so nothing.
TimerFetches == UNCHANGED <<telemetryIsLoading, telemetryFetches, telemetryPending>>

\* The dock's telemetry button (App.tsx:595) flips the flag; React renders
\* and runs the panel's effect on [isVisible] (telemetry-panel.tsx:85-90).
OnTelemetryClick ==
    /\ ~isTelemetryVisible => telemetryFetches < MaxFetches
    /\ isTelemetryVisible' = ~isTelemetryVisible
    /\ IF isTelemetryVisible'
       THEN FetchTelemetryData
       ELSE UNCHANGED <<telemetryIsLoading, telemetryFetches, telemetryPending>>
    /\ lastEvent' = [type |-> "telemetry_click"]
    /\ UNCHANGED <<telemetryData, clock>>
    /\ UNCHANGED <<coreVars, exceptTelemetry>>

\* The panel's close button: onToggle (App.tsx:625).
OnTelemetryClose ==
    /\ isTelemetryVisible
    /\ isTelemetryVisible' = FALSE
    /\ lastEvent' = [type |-> "telemetry_close"]
    /\ UNCHANGED <<telemetryData, telemetryIsLoading, telemetryPending,
                   telemetryFetches, clock>>
    /\ UNCHANGED <<coreVars, exceptTelemetry>>

\* The refresh button, disabled while loading (telemetry-panel.tsx:105-107).
OnTelemetryRefresh ==
    /\ isTelemetryVisible
    /\ ~telemetryIsLoading
    /\ telemetryFetches < MaxFetches
    /\ FetchTelemetryData
    /\ lastEvent' = [type |-> "telemetry_refresh"]
    /\ UNCHANGED <<isTelemetryVisible, telemetryData, clock>>
    /\ UNCHANGED <<coreVars, exceptTelemetry>>

\* fetchTelemetryData after its await (telemetry-panel.tsx:73-82).
TelemetryFetchSettled(o) ==
    /\ telemetryPending > 0
    /\ telemetryPending' = telemetryPending - 1
    /\ telemetryData' = IF o.t = "ok" THEN Some(o.data) ELSE telemetryData
    /\ telemetryIsLoading' = FALSE
    /\ lastEvent' = [type |-> "telemetry_settled"]
    /\ UNCHANGED <<isTelemetryVisible, telemetryFetches, clock>>
    /\ UNCHANGED <<coreVars, exceptTelemetry>>

\* A timer period goes by.
TimePasses ==
    /\ clock < MaxElapsed
    /\ clock' = clock + 1
    /\ TimerFetches
    /\ lastEvent' = [type |-> "time_passes"]
    /\ UNCHANGED <<isTelemetryVisible, telemetryData>>
    /\ UNCHANGED <<coreVars, exceptTelemetry>>

----------------------------------------------------------------------------
(* The theme provider (useSpeechToText.tsx:369-435) *)

\* const themes: Theme[] = ['glass', 'white', 'black']
Themes == <<"glass", "white", "black">>

\* What localStorage can hold under 'app-theme' when the page loads: nothing,
\* a theme, or a value that is no theme.
StoredThemes == <<None, Some("glass"), Some("white"), Some("black"), Some("dark")>>

\* document.body.className as the page can deliver it.  A class is the
\* sequence of its hyphen-separated parts: "theme-glass" is <<"theme", "glass">>.
BodyClassNames == <<
    <<>>,
    << <<"app">> >>,
    << <<"theme", "dark">>, <<"app">> >>,
    << <<"app">>, <<"theme", "white">>, <<"theme", "glass", "card">> >> >>

\* Component state other than the theme provider's.
exceptTheme == <<telemetryVars, voiceSettingsVars, transcriptPanelVars, speechVars, dialogVars, scriptVars, captureVars>>

\* The useState initializer (useSpeechToText.tsx:392-396).
InitialTheme(saved) ==
    IF saved # None /\ \E i \in 1..Len(Themes) : Themes[i] = saved[1]
    THEN saved[1] ELSE "glass"

\* One class with every match of /theme-\w+/g cut out of it.
RECURSIVE CutThemeMatches(_)
CutThemeMatches(parts) ==
    IF Len(parts) < 2 THEN parts
    ELSE IF parts[1] = "theme"
         THEN CutThemeMatches(SubSeq(parts, 3, Len(parts)))
         ELSE <<parts[1]>> \o CutThemeMatches(Tail(parts))

\* Variant: the class list with the new theme class added and nothing removed.
WithThemeClassAdded(className, t) == Append(className, <<"theme", t>>)

\* className.replace(/theme-\w+/g, '').concat(` theme-${t}`).trim()
\* (useSpeechToText.tsx:403-406 and 418-421): what is left of each class,
\* then the theme class.
WithThemeClass(className, t) ==
    LET cut == [i \in 1..Len(className) |-> CutThemeMatches(className[i])]
    IN  Append(SelectSeq(cut, LAMBDA c : c # <<>>), <<"theme", t>>)

\* The provider mounts: the initializer, then the effect on [theme].
ThemeProviderMount ==
    /\ ~themeMounted
    /\ themeMounted' = TRUE
    /\ theme' = InitialTheme(storedTheme)
    /\ bodyClassName' = WithThemeClass(bodyClassName, theme')
    /\ lastEvent' = [type |-> "theme_mount"]
    /\ UNCHANGED storedTheme
    /\ UNCHANGED <<coreVars, exceptTheme>>

\* setTheme(newTheme) (useSpeechToText.tsx:398-407), the render that follows
\* and its effect (416-422).
SetTheme(newTheme) ==
    /\ theme' = newTheme
    /\ storedTheme' = Some(newTheme)
    /\ bodyClassName' = WithThemeClass(WithThemeClass(bodyClassName, newTheme), newTheme)

\* The theme selector picks a theme.
OnThemeSelected(newTheme) ==
    /\ themeMounted
    /\ SetTheme(newTheme)
    /\ lastEvent' = [type |-> "theme_selected"]
    /\ UNCHANGED themeMounted
    /\ UNCHANGED <<coreVars, exceptTheme>>

\* themes.indexOf(theme)
IndexOfTheme(t) == CHOOSE i \in 1..Len(Themes) : Themes[i] = t

\* toggleTheme (useSpeechToText.tsx:409-414)
ToggleTheme ==
    /\ themeMounted
    /\ SetTheme(Themes[(IndexOfTheme(theme) % Len(Themes)) + 1])
    /\ lastEvent' = [type |-> "theme_toggle", from |-> theme]
    /\ UNCHANGED themeMounted
    /\ UNCHANGED <<coreVars, exceptTheme>>

----------------------------------------------------------------------------
(* The voice settings hook (src/unnamed/part_000) *)

\* AVAILABLE_VOICES (compact-voice-selector.tsx:12-23), by id
AvailableVoices ==
    <<"alloy", "ash", "ballad", "cedar", "coral", "echo", "marin", "sage",
      "shimmer", "verse">>

\* const DEFAULT_VOICE = 'alloy'
DEFAULT_VOICE == "alloy"

\* What localStorage can hold under a voice key when the hook is constructed:
\* nothing, the empty string, a string that is no voice, a voice.
StoredVoices == <<None, Some(""), Some("robot"), Some("sage")>>

\* JavaScript truthiness of a getItem result: null and '' are falsy.
SavedVoiceTruthy(saved) == saved # None /\ saved[1] # ""

\* if (savedTextVoice) setSelectedTextVoice(savedTextVoice)   (part_000:14-22)
LoadedVoice(saved) == IF SavedVoiceTruthy(saved) THEN saved[1] ELSE DEFAULT_VOICE

\* Everything but the voice settings.
exceptVoiceSettings == <<coreVars, telemetryVars, themeVars, transcriptPanelVars, speechVars, dialogVars, scriptVars, captureVars>>

\* The hook is constructed (first render after a page load): useState
\* defaults (part_000:8-9), then the effect of 12-26.
UseVoiceSettings ==
    /\ voiceSettingsMounted' = TRUE
    /\ selectedTextVoice' = LoadedVoice(storedTextVoice)
    /\ selectedRealtimeVoice' = LoadedVoice(storedRealtimeVoice)
    /\ voiceNotified' = None
    /\ lastEvent' = [type |-> "voice_settings_loaded"]
    /\ UNCHANGED <<storedTextVoice, storedRealtimeVoice>>
    /\ UNCHANGED exceptVoiceSettings

\* updateTextVoice(voice) (part_000:29-50).  localStorage.setItem can throw
\* (storage full or disabled); the catch then skips the notification.
UpdateTextVoice(voice, writable) ==
    /\ voiceSettingsMounted
    /\ selectedTextVoice' = voice
    /\ IF writable
       THEN /\ storedTextVoice' = Some(voice)
            /\ voiceNotified' = Some([voice |-> voice, mode |-> "text"])
       ELSE UNCHANGED <<storedTextVoice, voiceNotified>>
    /\ lastEvent' = [type |-> "voice_text_updated", voice |-> voice, persisted |-> writable]
    /\ UNCHANGED <<selectedRealtimeVoice, storedRealtimeVoice, voiceSettingsMounted>>
    /\ UNCHANGED exceptVoiceSettings

\* updateRealtimeVoice(voice) (part_000:53-74)
UpdateRealtimeVoice(voice, writable) ==
    /\ voiceSettingsMounted
    /\ selectedRealtimeVoice' = voice
    /\ IF writable
       THEN /\ storedRealtimeVoice' = Some(voice)
            /\ voiceNotified' = Some([voice |-> voice, mode |-> "realtime"])
       ELSE UNCHANGED <<storedRealtimeVoice, voiceNotified>>
    /\ lastEvent' = [type |-> "voice_realtime_updated", voice |-> voice, persisted |-> writable]
    /\ UNCHANGED <<selectedTextVoice, storedTextVoice, voiceSettingsMounted>>
    /\ UNCHANGED exceptVoiceSettings

----------------------------------------------------------------------------
(* The transcript panel (transcript-panel.tsx:309-605) *)

MaxPanelMessages == 2   \* completed messages per role handed to the panel
MaxCaptured == 1        \* captured utterances merged into the list

PanelUserTexts == <<"q1", "q2">>
PanelAssistantTexts == <<"r1", "r2">>

\* Everything but the transcript panel.
exceptTranscriptPanel == <<coreVars, telemetryVars, themeVars, voiceSettingsVars, speechVars, dialogVars, scriptVars, captureVars>>

\* The messages pushed by the loop of the effect (transcript-panel.tsx:
\* 359-380), from index i (0-based) on.  Timestamps are in units of 500 ms
\* relative to Date.now(): user i at -(maxLength - i) * 1000, assistant i
\* 500 ms later.
RECURSIVE PushedMessages(_, _, _)
PushedMessages(userMessages, assistantMessages, i) ==
    LET maxLength == IF Len(userMessages) > Len(assistantMessages)
                     THEN Len(userMessages) ELSE Len(assistantMessages)
        userPart == IF i < Len(userMessages) /\ userMessages[i + 1] # ""
                    THEN << [id |-> "user", type |-> "user",
                             content |-> <<userMessages[i + 1]>>,
                             timestamp |-> 0 - (maxLength - i) * 2,
                             isComplete |-> TRUE] >>
                    ELSE <<>>
        assistantPart == IF i < Len(assistantMessages) /\ assistantMessages[i + 1] # ""
                         THEN << [id |-> "assistant", type |-> "assistant",
                                  content |-> <<assistantMessages[i + 1]>>,
                                  timestamp |-> 0 - (maxLength - i) * 2 + 1,
                                  isComplete |-> TRUE] >>
                         ELSE <<>>
    IN  IF i >= maxLength THEN <<>>
        ELSE userPart \o assistantPart
               \o PushedMessages(userMessages, assistantMessages, i + 1)

\* One message put into a list sorted by timestamp, behind its equals.
RECURSIVE InsertByTimestamp(_, _)
InsertByTimestamp(sorted, m) ==
    IF sorted = <<>> THEN <<m>>
    ELSE IF m.timestamp < Head(sorted).timestamp THEN <<m>> \o sorted
    ELSE <<Head(sorted)>> \o InsertByTimestamp(Tail(sorted), m)

\* Variant: the assistant messages put before the user messages.
SortedAssistantFirst(msgs) ==
    SelectSeq(msgs, LAMBDA m : m.type = "assistant")
      \o SelectSeq(msgs, LAMBDA m : m.type = "user")

\* allMessages.sort((a, b) => a.timestamp - b.timestamp): a stable sort.
RECURSIVE SortByTimestamp(_)
SortByTimestamp(msgs) ==
    IF msgs = <<>> THEN <<>>
    ELSE InsertByTimestamp(SortByTimestamp(SubSeq(msgs, 1, Len(msgs) - 1)),
                           msgs[Len(msgs)])

\* The effect on [userMessages, assistantMessages] (354-385): the list is
\* rebuilt from the two props, replacing whatever it held.
InterleavedMessages(userMessages, assistantMessages) ==
    SortByTimestamp(PushedMessages(userMessages, assistantMessages, 0))

\* content: `utilisateur : "${currentUserInput}"` (396)
LiveUserContent(text) == <<"utilisateur : \"", text, "\"">>

\* The parent renders the panel with one more completed user message; the
\* effect rebuilds the list.
PanelUserMessageCompleted(text) ==
    /\ Len(panelUserMessages) < MaxPanelMessages
    /\ panelUserMessages' = Append(panelUserMessages, text)
    /\ transcriptMessages' = InterleavedMessages(panelUserMessages', panelAssistantMessages)
    /\ lastEvent' = [type |-> "panel_user_completed"]
    /\ UNCHANGED <<panelAssistantMessages, panelCurrentUserInput,
                   panelCurrentAssistantResponse, transcriptExport, transcriptAlerts>>
    /\ UNCHANGED exceptTranscriptPanel

\* The parent renders the panel with one more completed assistant message.
PanelAssistantMessageCompleted(text) ==
    /\ Len(panelAssistantMessages) < MaxPanelMessages
    /\ ~Includes(panelAssistantMessages, text)
    /\ panelAssistantMessages' = Append(panelAssistantMessages, text)
    /\ transcriptMessages' = InterleavedMessages(panelUserMessages, panelAssistantMessages')
    /\ lastEvent' = [type |-> "panel_assistant_completed"]
    /\ UNCHANGED <<panelUserMessages, panelCurrentUserInput,
                   panelCurrentAssistantResponse, transcriptExport, transcriptAlerts>>
    /\ UNCHANGED exceptTranscriptPanel

\* The parent renders the panel with other live turns; the effect does not
\* depend on them.
PanelLiveTurns(userInput, assistantResponse) ==
    /\ <<userInput, assistantResponse>> #
         <<panelCurrentUserInput, panelCurrentAssistantResponse>>
    /\ panelCurrentUserInput' = userInput
    /\ panelCurrentAssistantResponse' = assistantResponse
    /\ lastEvent' = [type |-> "panel_live_turns"]
    /\ UNCHANGED <<panelUserMessages, panelAssistantMessages, transcriptMessages,
                   transcriptExport, transcriptAlerts>>
    /\ UNCHANGED exceptTranscriptPanel

\* handleUserTranscript(transcript) (441-451): an utterance of the capture
\* tab is appended to the list.
HandleUserTranscript(transcript) ==
    /\ Len(SelectSeq(transcriptMessages, LAMBDA m : m.id = "captured")) < MaxCaptured
    /\ transcriptMessages' =
         Append(transcriptMessages,
                [id |-> "captured", type |-> "user",
                 content |-> <<"\"", transcript, "\"">>,
                 timestamp |-> 0, isComplete |-> TRUE])
    /\ lastEvent' = [type |-> "panel_captured"]
    /\ UNCHANGED <<panelUserMessages, panelAssistantMessages, panelCurrentUserInput,
                   panelCurrentAssistantResponse, transcriptExport, transcriptAlerts>>
    /\ UNCHANGED exceptTranscriptPanel

\* allTranscriptMessages of downloadTranscript (387-411)
AllTranscriptMessages ==
    transcriptMessages
      \o (IF panelCurrentUserInput # ""
          THEN << [id |-> "current-user", type |-> "user",
                   content |-> LiveUserContent(panelCurrentUserInput),
                   timestamp |-> 0, isComplete |-> FALSE] >>
          ELSE <<>>)
      \o (IF panelCurrentAssistantResponse # ""
          THEN << [id |-> "current-assistant", type |-> "assistant",
                   content |-> <<panelCurrentAssistantResponse>>,
                   timestamp |-> 0, isComplete |-> FALSE] >>
          ELSE <<>>)

\* `[${timestamp}] ${role}: ${message.content}` (420-425), the timestamp text
\* left out.
TranscriptLine(message) == [role |-> message.type, content |-> message.content]

\* downloadTranscript (387-439): the lines joined by "\n\n", or the notice.
DownloadTranscript ==
    /\ IF AllTranscriptMessages = <<>>
       THEN /\ transcriptAlerts' = 1
            /\ UNCHANGED transcriptExport
       ELSE /\ transcriptExport' =
                 Some([lines |-> [i \in 1..Len(AllTranscriptMessages) |->
                                     TranscriptLine(AllTranscriptMessages[i])],
                       separator |-> "\n\n"])
            /\ UNCHANGED transcriptAlerts
    /\ lastEvent' = [type |-> "transcript_download"]
    /\ UNCHANGED <<panelUserMessages, panelAssistantMessages, panelCurrentUserInput,
                   panelCurrentAssistantResponse, transcriptMessages>>
    /\ UNCHANGED exceptTranscriptPanel

----------------------------------------------------------------------------
(* The browser speech-to-text hook (useSpeechToText.tsx:11-113) *)

MaxStartCalls == 3    \* calls of the recognizer's start()
MaxStopCalls == 2     \* calls of the recognizer's stop()
MaxResults == 2       \* result events delivered

\* Everything but the speech-to-text hook.
exceptSpeech ==
    <<coreVars, telemetryVars, themeVars, voiceSettingsVars, transcriptPanelVars,
      dialogVars,
      scriptVars, captureVars>>

\* recognitionRef.current.start() on the platform recognizer: an instance that
\* has been started and has not ended raises InvalidStateError; an idle one
\* begins to start and reports onstart later.
RecognizerStart ==
    /\ recognizerStartCalls' = recognizerStartCalls + 1
    /\ IF recognizerState = "idle"
       THEN /\ recognizerState' = "starting"
            /\ UNCHANGED recognizerInvalidStarts
       ELSE /\ recognizerInvalidStarts' = recognizerInvalidStarts + 1
            /\ UNCHANGED recognizerState

\* recognitionRef.current.stop(): an instance that is not started ignores it.
RecognizerStop ==
    /\ recognizerStopCalls' = recognizerStopCalls + 1
    /\ recognizerState' = IF recognizerState = "idle" THEN "idle" ELSE "stopping"

\* if (recognitionRef.current && !isListening)   (useSpeechToText.tsx:86)
StartAllowed == speechSupported /\ ~speechIsListening

\* startListening (useSpeechToText.tsx:85-91)
SpeechStartListening ==
    /\ recognizerStartCalls < MaxStartCalls
    /\ IF StartAllowed
       THEN /\ speechTranscript' = <<>>
            /\ speechInterimTranscript' = <<>>
            /\ RecognizerStart
            /\ UNCHANGED recognizerStopCalls
       ELSE UNCHANGED <<speechTranscript, speechInterimTranscript, recognizerState,
                        recognizerStartCalls, recognizerInvalidStarts, recognizerStopCalls>>
    /\ lastEvent' = [type |-> "speech_start", allowed |-> StartAllowed]
    /\ UNCHANGED <<speechIsListening, speechSupported, recognizerResults>>
    /\ UNCHANGED exceptSpeech

\* stopListening (useSpeechToText.tsx:93-97)
SpeechStopListening ==
    /\ recognizerStopCalls < MaxStopCalls
    /\ IF speechSupported /\ speechIsListening
       THEN /\ RecognizerStop
            /\ UNCHANGED <<recognizerStartCalls, recognizerInvalidStarts>>
       ELSE UNCHANGED <<recognizerState, recognizerStartCalls, recognizerInvalidStarts,
                        recognizerStopCalls>>
    /\ lastEvent' = [type |-> "speech_stop"]
    /\ UNCHANGED <<speechIsListening, speechSupported, speechTranscript,
                   speechInterimTranscript, recognizerResults>>
    /\ UNCHANGED exceptSpeech

\* recognition.onstart (useSpeechToText.tsx:38-40)
RecognizerOnStart ==
    /\ recognizerState = "starting"
    /\ recognizerState' = "active"
    /\ speechIsListening' = TRUE
    /\ lastEvent' = [type |-> "recognizer_onstart"]
    /\ UNCHANGED <<speechSupported, speechTranscript, speechInterimTranscript,
                   recognizerStartCalls, recognizerInvalidStarts, recognizerStopCalls,
                   recognizerResults>>
    /\ UNCHANGED exceptSpeech

\* recognition.onresult (useSpeechToText.tsx:42-63) with one result, final or
\* interim.
RecognizerOnResult(text, isFinal) ==
    /\ recognizerState \in {"active", "stopping"}
    /\ recognizerResults < MaxResults
    /\ recognizerResults' = recognizerResults + 1
    /\ speechTranscript' = IF isFinal THEN speechTranscript \o <<text>> ELSE speechTranscript
    /\ speechInterimTranscript' = IF isFinal THEN <<>> ELSE <<text>>
    /\ lastEvent' = [type |-> "recognizer_onresult"]
    /\ UNCHANGED <<speechIsListening, speechSupported, recognizerState,
                   recognizerStartCalls, recognizerInvalidStarts, recognizerStopCalls>>
    /\ UNCHANGED exceptSpeech

\* recognition.onerror followed by recognition.onend, or recognition.onend
\* alone (useSpeechToText.tsx:65-75): the recognizer has ended.
RecognizerOnEnd(errored) ==
    /\ recognizerState # "idle"
    /\ recognizerState' = "idle"
    /\ speechIsListening' = FALSE
    /\ lastEvent' = [type |-> "recognizer_onend", errored |-> errored]
    /\ UNCHANGED <<speechSupported, speechTranscript, speechInterimTranscript,
                   recognizerStartCalls, recognizerInvalidStarts, recognizerStopCalls,
                   recognizerResults>>
    /\ UNCHANGED exceptSpeech

----------------------------------------------------------------------------
(* The dialog primitive (src/unnamed/part_002:10-42) *)

MaxLeaked == 2    \* escape handlers whose cleanup was lost

\* The instances the application renders, in tree order: the help dialog
\* (help-dialog.tsx:46), the tech-stack dialog (part_005:99) and the source
\* dialog (rag-source-display.tsx:151).
Dialogs == <<"help", "techStack", "ragSource">>
DialogSet == {Dialogs[i] : i \in 1..Len(Dialogs)}

\* document.body.style.overflow as the page can set it before any dialog.
PageOverflows == <<"", "scroll">>

\* Everything but the dialogs.
exceptDialogs ==
    <<coreVars, telemetryVars, themeVars, voiceSettingsVars, transcriptPanelVars,
      speechVars,
      scriptVars, captureVars>>

\* The escape-key handlers bound to the document: one per live effect, and
\* those left behind.
EscapeHandlersBound ==
    Cardinality({d \in DialogSet : dialogPreviousOverflow[d] # None})
      + leakedEscapeHandlers

\* The effect body (part_002:15-25) of instance d on a body whose overflow is
\* `overflow`: the value is remembered, the handler bound, the scroll locked.
DialogEffect(previous, d, overflow) == [previous EXCEPT ![d] = Some(overflow)]

\* The cleanups (part_002:27-30) of the instances of `closing`, run in tree
\* order from index i on: the overflow each one restores.
RECURSIVE OverflowAfterCleanups(_, _, _)
OverflowAfterCleanups(closing, i, overflow) ==
    IF i > Len(Dialogs) THEN overflow
    ELSE OverflowAfterCleanups(closing, i + 1,
            IF Dialogs[i] \in closing /\ dialogPreviousOverflow[Dialogs[i]] # None
            THEN dialogPreviousOverflow[Dialogs[i]][1] ELSE overflow)

\* The instances of `closing` stop rendering the effect (open is false and the
\* component returns at line 11, before the hook of line 14).  A hook that is
\* not called on every render is outside React's contract: its cleanup runs
\* (cleanupRuns) or is lost with the handler still bound.
DialogsClose(closing, cleanupRuns) ==
    /\ dialogOpen' = [d \in DialogSet |-> dialogOpen[d] /\ d \notin closing]
    /\ dialogPreviousOverflow' =
         [d \in DialogSet |-> IF d \in closing THEN None ELSE dialogPreviousOverflow[d]]
    /\ IF cleanupRuns
       THEN /\ bodyOverflow' = OverflowAfterCleanups(closing, 1, bodyOverflow)
            /\ UNCHANGED leakedEscapeHandlers
       ELSE /\ leakedEscapeHandlers' = leakedEscapeHandlers
                  + Cardinality({d \in closing : dialogPreviousOverflow[d] # None})
            /\ UNCHANGED bodyOverflow

\* The parent renders instance d with open = true: the effect runs.
DialogOpened(d) ==
    /\ ~dialogOpen[d]
    /\ dialogOpen' = [dialogOpen EXCEPT ![d] = TRUE]
    /\ dialogPreviousOverflow' = DialogEffect(dialogPreviousOverflow, d, bodyOverflow)
    /\ bodyOverflow' = "hidden"
    /\ lastEvent' = [type |-> "dialog_opened", dialog |-> d]
    /\ UNCHANGED <<leakedEscapeHandlers, overflowAtLoad>>
    /\ UNCHANGED exceptDialogs

\* onOpenChange(false) from the backdrop of instance d (part_002:37), and the
\* parent renders it with open = false.
DialogClosed(d, cleanupRuns) ==
    /\ dialogOpen[d]
    /\ ~cleanupRuns => leakedEscapeHandlers < MaxLeaked
    /\ DialogsClose({d}, cleanupRuns)
    /\ lastEvent' = [type |-> "dialog_closed", dialog |-> d, cleanup |-> cleanupRuns]
    /\ UNCHANGED overflowAtLoad
    /\ UNCHANGED exceptDialogs

\* The Escape key: every bound handler calls onOpenChange(false) (part_002:
\* 16-20), and the parents render their instances closed in one commit.
EscapePressed(cleanupRuns) ==
    LET closing == {d \in DialogSet : dialogOpen[d]} IN
    /\ closing # {}
    /\ EscapeHandlersBound > 0
    /\ ~cleanupRuns => leakedEscapeHandlers + Cardinality(closing) <= MaxLeaked
    /\ DialogsClose(closing, cleanupRuns)
    /\ lastEvent' = [type |-> "escape_pressed", cleanup |-> cleanupRuns]
    /\ UNCHANGED overflowAtLoad
    /\ UNCHANGED exceptDialogs

\* The parent renders open instance d with a new onOpenChange function: the
\* dependency list [open, onOpenChange] (part_002:31) makes the cleanup and
\* then the effect run.
DialogRerendered(d) ==
    /\ dialogOpen[d]
    /\ dialogPreviousOverflow[d] # None
    /\ dialogPreviousOverflow' =
         DialogEffect(dialogPreviousOverflow, d, dialogPreviousOverflow[d][1])
    /\ bodyOverflow' = "hidden"
    /\ lastEvent' = [type |-> "dialog_rerendered", dialog |-> d]
    /\ UNCHANGED <<dialogOpen, leakedEscapeHandlers, overflowAtLoad>>
    /\ UNCHANGED exceptDialogs

----------------------------------------------------------------------------
(* The orchestration scripts: start.sh (src/unnamed/part_014:1-51) and
   write_env.sh (src/unnamed/part_013:1-35) *)

\* The lines write_env.sh appends (part_013:20-35), in order: the key, and
\* whether its value is asked of azd (required) or written literally.
EnvLines == <<
    [key |-> "AZURE_OPENAI_ENDPOINT", required |-> TRUE],
    [key |-> "AZURE_OPENAI_REALTIME_DEPLOYMENT", required |-> TRUE],
    [key |-> "AZURE_OPENAI_REALTIME_VOICE_CHOICE", required |-> TRUE],
    [key |-> "AZURE_OPENAI_REALTIME_VOICE_NAME", required |-> TRUE],
    [key |-> "AZURE_OPENAI_REALTIME_VOICE_MODEL_VERSION", required |-> TRUE],
    [key |-> "AZURE_OPENAI_REALTIME_API_VERSION", required |-> FALSE],
    [key |-> "AZURE_SEARCH_ENDPOINT", required |-> TRUE],
    [key |-> "AZURE_SEARCH_INDEX", required |-> TRUE],
    [key |-> "AZURE_TENANT_ID", required |-> TRUE],
    [key |-> "AZURE_SEARCH_SEMANTIC_CONFIGURATION", required |-> TRUE],
    [key |-> "AZURE_SEARCH_IDENTIFIER_FIELD", required |-> TRUE],
    [key |-> "AZURE_SEARCH_CONTENT_FIELD", required |-> TRUE],
    [key |-> "AZURE_SEARCH_TITLE_FIELD", required |-> TRUE],
    [key |-> "AZURE_SEARCH_EMBEDDING_FIELD", required |-> TRUE],
    [key |-> "AZURE_SEARCH_USE_VECTOR_QUERY", required |-> TRUE],
    [key |-> "AZURE_API_ENDPOINT", required |-> TRUE] >>

\* What `azd env get-value NAME 2>/dev/null` can print: a value, nothing, or
\* an error text.
AzdOutputs == <<"value", "", "ERROR: key not found">>

\* The exit codes a step (npm, python) can end with.
StepCodes == <<0, 1>>

\* Everything but the scripts.
exceptScripts ==
    <<coreVars, telemetryVars, themeVars, voiceSettingsVars, transcriptPanelVars,
      speechVars, dialogVars, captureVars>>

\* [ -z "$value" ] || echo "$value" | grep -q '^ERROR:'   (part_013:12)
AzdValueMissing(output) == output = "" \/ output = "ERROR: key not found"

\* get_azd_value NAME inside $( ... ) (part_013:9-17): what the substitution
\* yields.  The exit 1 of line 14 ends the substitution's subshell only.
GetAzdValue(output) == IF AzdValueMissing(output) THEN "" ELSE output

\* write_env.sh begins: `> $ENV_FILE_PATH` (part_013:7) empties the file.
WriteEnvBegin ==
    /\ envFile' = Some(<<>>)
    /\ envPc' = 1
    /\ envExit' = None

\* write_env.sh is run on its own.
WriteEnvRun ==
    /\ scriptEntry = "write_env.sh"
    /\ envPc = 0
    /\ WriteEnvBegin
    /\ lastEvent' = [type |-> "write_env_run"]
    /\ UNCHANGED <<scriptEntry, azdInstalled, startPc, lastStatus, startExit,
                   scriptStderr, backendStarted, apiStarted, failedSteps>>
    /\ UNCHANGED exceptScripts

\* One line of part_013:20-35: echo "KEY=$(get_azd_value KEY)" >> file.  The
\* echo runs whatever the substitution did, and the script goes on to the
\* next line; after the last one it ends with the status of that echo.
WriteEnvLine(output) ==
    /\ envPc \in 1..Len(EnvLines)
    /\ LET line == EnvLines[envPc]
           missing == line.required /\ AzdValueMissing(output)
       IN  /\ envFile' = Some(Append(envFile[1],
                    [key |-> line.key,
                     value |-> IF line.required THEN GetAzdValue(output)
                               ELSE "2025-04-01-preview"]))
           /\ scriptStderr' = IF missing THEN Append(scriptStderr, line.key)
                              ELSE scriptStderr
           /\ failedSteps' = IF missing THEN failedSteps \cup {"bootstrap"}
                             ELSE failedSteps
           /\ lastEvent' = [type |-> "write_env_line", key |-> line.key,
                            missing |-> missing]
    /\ envPc' = envPc + 1
    /\ envExit' = IF envPc = Len(EnvLines) THEN Some(0) ELSE None
    /\ UNCHANGED <<scriptEntry, azdInstalled, startPc, lastStatus, startExit,
                   backendStarted, apiStarted>>
    /\ UNCHANGED exceptScripts

\* start.sh lines 3-12: the environment file is generated if it is absent and
\* azd is installed.
StartCheckEnv ==
    /\ scriptEntry = "start.sh"
    /\ startPc = "check_env"
    /\ IF envFile = None /\ azdInstalled
       THEN /\ WriteEnvBegin
            /\ startPc' = "bootstrap"
       ELSE /\ startPc' = "install"
            /\ UNCHANGED <<envFile, envPc, envExit>>
    /\ lastEvent' = [type |-> "start_check_env"]
    /\ UNCHANGED <<scriptEntry, azdInstalled, lastStatus, startExit, scriptStderr,
                   backendStarted, apiStarted, failedSteps>>
    /\ UNCHANGED exceptScripts

\* ./scripts/write_env.sh || true   (part_014:8): whatever the script
\* returned, the status is 0 and start.sh goes on.
StartBootstrapDone ==
    /\ startPc = "bootstrap"
    /\ envExit # None
    /\ lastStatus' = 0
    /\ startPc' = "install"
    /\ lastEvent' = [type |-> "start_bootstrap_done"]
    /\ UNCHANGED <<scriptEntry, azdInstalled, envFile, envPc, envExit, startExit,
                   scriptStderr, backendStarted, apiStarted, failedSteps>>
    /\ UNCHANGED exceptScripts

\* if [ $? -ne 0 ]; then echo "Failed ..."; exit $?; fi   after a step that
\* ended with `code` (part_014:19-22, 29-32, 48-51): the echo succeeds, so the
\* $? that exit reads is the echo's.
ExitIfFailed(code, next) ==
    IF code # 0
    THEN /\ lastStatus' = 0
         /\ startExit' = Some(lastStatus')
         /\ startPc' = "exited"
    ELSE /\ lastStatus' = 0
         /\ startExit' = (IF next = "exited" THEN Some(0) ELSE None)
         /\ startPc' = next

\* npm install (part_014:17-22)
StartNpmInstall(code) ==
    /\ startPc = "install"
    /\ ExitIfFailed(code, "build")
    /\ failedSteps' = IF code # 0 THEN failedSteps \cup {"install"} ELSE failedSteps
    /\ lastEvent' = [type |-> "start_npm_install", code |-> code]
    /\ UNCHANGED <<scriptEntry, azdInstalled, envFile, envPc, envExit, scriptStderr,
                   backendStarted, apiStarted>>
    /\ UNCHANGED exceptScripts

\* npm audit fix; npm run build (part_014:27-32): the audit's status is
\* overwritten by the build's.
StartNpmBuild(auditCode, code) ==
    /\ startPc = "build"
    /\ ExitIfFailed(code, "backend")
    /\ failedSteps' = IF code # 0 THEN failedSteps \cup {"build"} ELSE failedSteps
    /\ lastEvent' = [type |-> "start_npm_build", audit |-> auditCode, code |-> code]
    /\ UNCHANGED <<scriptEntry, azdInstalled, envFile, envPc, envExit, scriptStderr,
                   backendStarted, apiStarted>>
    /\ UNCHANGED exceptScripts

\* ./.venv/bin/python app/backend/app.py &   (part_014:38-42): launching in
\* the background always gives status 0.
StartBackend ==
    /\ startPc = "backend"
    /\ backendStarted' = TRUE
    /\ ExitIfFailed(0, "api")
    /\ lastEvent' = [type |-> "start_backend"]
    /\ UNCHANGED <<scriptEntry, azdInstalled, envFile, envPc, envExit, scriptStderr,
                   apiStarted, failedSteps>>
    /\ UNCHANGED exceptScripts

\* ./.venv/bin/python app/api/main.py   (part_014:47-51), run in the
\* foreground until it ends with `code`.
StartApi(code) ==
    /\ startPc = "api"
    /\ apiStarted' = TRUE
    /\ ExitIfFailed(code, "exited")
    /\ failedSteps' = IF code # 0 THEN failedSteps \cup {"api"} ELSE failedSteps
    /\ lastEvent' = [type |-> "start_api", code |-> code]
    /\ UNCHANGED <<scriptEntry, azdInstalled, envFile, envPc, envExit, scriptStderr,
                   backendStarted>>
    /\ UNCHANGED exceptScripts

----------------------------------------------------------------------------
(* The question-capture widget (voice-selector.tsx:134-225) and the
   recognizers of its speech-to-text hook (useSpeechToText.tsx:25-97) *)

AutoStopTicks == 3     \* the 30000 ms of the auto-stop timeout, in ticks of 10 s

\* Everything but the capture widget.
exceptCapture ==
    <<coreVars, telemetryVars, themeVars, voiceSettingsVars, transcriptPanelVars,
      speechVars, dialogVars, scriptVars>>

\* The widget's closures are those of the current state.
CaptureCommitted == captureView = CaptureCurrentView

\* React flushes the state updates of a click handler synchronously, when the
\* handler returns: no other event is dispatched between a press of the
\* button and the render it caused.  (Updates made by recognizer events and
\* timeouts are batched and rendered later.)
ClickRenderDue == lastEvent.type = "capture_toggle" /\ ~CaptureCommitted

\* The recognizers on which a recognition is under way.
LiveRecognizers(rs) ==
    {i \in 1..MaxRecognizers : rs[i].state \in {"starting", "active", "ending"}}

\* stop() on a platform recognizer: honoured on a started recognition that
\* was not stopped yet, ignored otherwise.
StopRecognizer(rs, i) ==
    IF rs[i].state \in {"starting", "active"} /\ ~rs[i].stopRequested
    THEN [rs EXCEPT ![i].stopRequested = TRUE]
    ELSE rs

\* start() on a platform recognizer: an idle one begins to start; a started
\* one raises InvalidStateError and is left as it is.
StartRecognizer(rs, i) ==
    IF rs[i].state = "idle"
    THEN [rs EXCEPT ![i] = [state |-> "starting", stopRequested |-> FALSE, age |-> 0]]
    ELSE rs

\* Variant: the hook's effect runs on mount only, the recognizer is kept.
RecognitionEffectOnce(rs, ref) == [recognizers |-> rs, ref |-> ref]

\* The hook's effect on a render that changed one of its dependencies
\* (useSpeechToText.tsx:25-83): the cleanup of the previous run stops the
\* recognizer in the ref (77-81), then a new recognizer is constructed and
\* stored in the ref (31).  The widget passes onTranscript and onError as
\* inline functions (voice-selector.tsx:156-183), so every render of the
\* widget changes the dependencies.
RecognitionEffect(rs, ref) ==
    LET stopped  == StopRecognizer(rs, ref)
        released == IF stopped[ref].state = "idle"
                    THEN [stopped EXCEPT ![ref] = FreeRecognizer]
                    ELSE stopped
        fresh    == CHOOSE i \in 1..MaxRecognizers :
                       /\ i # ref
                       /\ released[i].state = "free"
                       /\ \A j \in 1..MaxRecognizers :
                             (j # ref /\ released[j].state = "free") => i <= j
    IN  [recognizers |-> [released EXCEPT ![fresh] = IdleRecognizer], ref |-> fresh]

\* A render of the widget commits: the hook's effect re-runs, and so does the
\* auto-stop effect (voice-selector.tsx:215-225), whose dependency
\* stopListening is a new function on every render: its cleanup clears the
\* pending timeout and, while isListening is true, a new one is set.
CaptureRender ==
    /\ ~CaptureCommitted
    /\ captureView' = CaptureCurrentView
    /\ LET e == RecognitionEffect(recognizers, recognitionRef) IN
        /\ recognizers' = e.recognizers
        /\ recognitionRef' = e.ref
    /\ autoStopTimeout' = IF captureIsListening THEN Some(AutoStopTicks) ELSE None
    /\ lastEvent' = [type |-> "capture_render"]
    /\ UNCHANGED <<isCapturing, capturedQuestions, captureIsListening,
                   captureInterimTranscript>>
    /\ UNCHANGED exceptCapture

\* handleToggleCapture (voice-selector.tsx:205-213) with startListening
\* (useSpeechToText.tsx:85-91) and stopListening (93-97), all reading the
\* state of the render that created them.
HandleToggleCapture ==
    /\ CaptureCommitted
    /\ LET stopping == captureView.isCapturing /\ captureView.isListening
           starting == ~captureView.isCapturing
           starts   == starting /\ ~captureView.isListening
       IN  /\ starts => Cardinality(LiveRecognizers(recognizers)) <= MaxRecognizers - 3
           /\ isCapturing' = IF stopping THEN FALSE
                             ELSE IF starting THEN TRUE ELSE isCapturing
           /\ recognizers' = IF stopping THEN StopRecognizer(recognizers, recognitionRef)
                             ELSE IF starts THEN StartRecognizer(recognizers, recognitionRef)
                             ELSE recognizers
           /\ captureInterimTranscript' = IF starts THEN 0 ELSE captureInterimTranscript
           /\ lastEvent' = [type |-> "capture_toggle", stops |-> stopping,
                            starts |-> starts]
    /\ UNCHANGED <<capturedQuestions, captureIsListening, captureView, recognitionRef,
                   autoStopTimeout>>
    /\ UNCHANGED exceptCapture

\* recognition.onstart of recognizer i (useSpeechToText.tsx:38-40).
CaptureOnStart(i) ==
    /\ ~ClickRenderDue
    /\ recognizers[i].state = "starting"
    /\ recognizers' = [recognizers EXCEPT ![i].state = "active"]
    /\ captureIsListening' = TRUE
    /\ lastEvent' = [type |-> "capture_onstart", recognizer |-> i]
    /\ UNCHANGED <<isCapturing, capturedQuestions, captureInterimTranscript,
                   captureView, recognitionRef, autoStopTimeout>>
    /\ UNCHANGED exceptCapture

\* recognition.onresult of recognizer i (useSpeechToText.tsx:42-63) and the
\* widget's onTranscript (voice-selector.tsx:156-179).  An interim result
\* shows its text; a final one is logged, resets the texts and clears the
\* capturing flag, and with continuous = false it is the recognition's last.
CaptureOnResult(i, isFinal, text) ==
    /\ ~ClickRenderDue
    /\ recognizers[i].state = "active"
    /\ IF isFinal
       THEN /\ capturedQuestions < MaxQuestions
            /\ capturedQuestions' = capturedQuestions + 1
            /\ captureInterimTranscript' = 0
            /\ isCapturing' = FALSE
            /\ recognizers' = [recognizers EXCEPT ![i].state = "ending"]
       ELSE /\ text # captureInterimTranscript
            /\ captureInterimTranscript' = text
            /\ UNCHANGED <<capturedQuestions, isCapturing, recognizers>>
    /\ lastEvent' = [type |-> "capture_onresult", recognizer |-> i, isFinal |-> isFinal]
    /\ UNCHANGED <<captureIsListening, captureView, recognitionRef, autoStopTimeout>>
    /\ UNCHANGED exceptCapture

\* recognition.onerror of recognizer i (useSpeechToText.tsx:65-71) and the
\* widget's onError (voice-selector.tsx:180-183); the end event follows.
CaptureOnError(i) ==
    /\ ~ClickRenderDue
    /\ recognizers[i].state \in {"starting", "active"}
    /\ recognizers' = [recognizers EXCEPT ![i].state = "ending"]
    /\ captureIsListening' = FALSE
    /\ isCapturing' = FALSE
    /\ lastEvent' = [type |-> "capture_onerror", recognizer |-> i]
    /\ UNCHANGED <<capturedQuestions, captureInterimTranscript, captureView,
                   recognitionRef, autoStopTimeout>>
    /\ UNCHANGED exceptCapture

\* recognition.onend of recognizer i (useSpeechToText.tsx:73-75): after its
\* last result or its error, after stop(), or when the platform ends a
\* recognition by itself.  A recognizer that is no longer in the ref is gone.
CaptureOnEnd(i) ==
    /\ ~ClickRenderDue
    /\ \/ recognizers[i].state \in {"active", "ending"}
       \/ recognizers[i].state = "starting" /\ recognizers[i].stopRequested
    /\ recognizers' = [recognizers EXCEPT
                          ![i] = IF i = recognitionRef THEN IdleRecognizer
                                 ELSE FreeRecognizer]
    /\ captureIsListening' = FALSE
    /\ lastEvent' = [type |-> "capture_onend", recognizer |-> i]
    /\ UNCHANGED <<isCapturing, capturedQuestions, captureInterimTranscript,
                   captureView, recognitionRef, autoStopTimeout>>
    /\ UNCHANGED exceptCapture

\* The auto-stop timeout fires (voice-selector.tsx:219-222).  It was set by a
\* render in which isListening was true, so the guard of its stopListening
\* passes and stop() goes to the recognizer in the ref.
CaptureTimeoutFires ==
    /\ ~ClickRenderDue
    /\ autoStopTimeout = Some(0)
    /\ recognizers' = StopRecognizer(recognizers, recognitionRef)
    /\ isCapturing' = FALSE
    /\ autoStopTimeout' = None
    /\ lastEvent' = [type |-> "capture_timeout"]
    /\ UNCHANGED <<capturedQuestions, captureIsListening, captureInterimTranscript,
                   captureView, recognitionRef>>
    /\ UNCHANGED exceptCapture

\* Ten seconds pass: no render is pending and no timeout is due.  The age of a
\* listening recognizer is counted up to one tick past the auto-stop delay.
CaptureTimePasses ==
    /\ CaptureCommitted
    /\ autoStopTimeout # Some(0)
    /\ \/ autoStopTimeout # None
       \/ \E i \in 1..MaxRecognizers :
             recognizers[i].state = "active" /\ recognizers[i].age <= AutoStopTicks
    /\ autoStopTimeout' = IF autoStopTimeout = None THEN None
                          ELSE Some(autoStopTimeout[1] - 1)
    /\ recognizers' = [i \in 1..MaxRecognizers |->
                          IF recognizers[i].state = "active"
                             /\ recognizers[i].age <= AutoStopTicks
                          THEN [recognizers[i] EXCEPT !.age = @ + 1]
                          ELSE recognizers[i]]
    /\ lastEvent' = [type |-> "capture_time"]
    /\ UNCHANGED <<isCapturing, capturedQuestions, captureIsListening,
                   captureInterimTranscript, captureView, recognitionRef>>
    /\ UNCHANGED exceptCapture

----------------------------------------------------------------------------
(* Specifications *)

\* The user starts listening once and the recorder starts.
StartListening == ~sessionStarted /\ OnToggleListening

\* Tool-response frames and barge-in on a started realtime session.
NextTool ==
    \/ StartListening
    \/ StartRecordingResolved
    \/ OnReceivedResponseAudioDelta
    \/ OnReceivedInputAudioBufferSpeechStarted
    \/ \E i \in 1..Len(ToolResults) : OnReceivedExtensionMiddleTierToolResponse(ToolResults[i])
SpecTool == Init /\ [][NextTool]_vars

\* Transcript frames and barge-in on a started realtime session.
NextVoice ==
    \/ StartListening
    \/ StartRecordingResolved
    \/ OnReceivedResponseAudioDelta
    \/ \E i \in 1..Len(Deltas) : OnReceivedResponseAudioTranscriptDelta(Deltas[i])
    \/ \E i \in 1..Len(Transcripts) : OnReceivedInputAudioTranscriptionCompleted(Transcripts[i])
    \/ OnReceivedInputAudioBufferSpeechStarted
    \/ OnReceivedResponseDone
    \/ Render
SpecVoice == Init /\ [][NextVoice]_vars

\* Both chat sessions, every kind of response, any interleaving of calls,
\* completions and renders.
NextChat ==
    \/ \E i \in 1..Len(Calls) : Len(sent) < MaxSends /\ ChatSend(Calls[i])
    \/ \E r \in inflight : \E i \in 1..Len(Responses) : ChatResolve(r, Responses[i])
    \/ \E i \in 1..Len(Calls) : Len(sent) < MaxSends /\ PlainSend(Calls[i].message)
    \/ \E r \in inflight : \E i \in 1..Len(Responses) : PlainResolve(r, Responses[i])
    \/ Render
SpecChat == Init /\ [][NextChat]_vars

\* The shell's text mode over several exchanges: the user types a draft and
\* sends it, the request completes, React re-renders.
HistoryResponses == {1, 2, 4}
NextHistory ==
    \/ \E i \in 1..Len(Drafts) : OnTextChange(Drafts[i])
    \/ Len(sent) < MaxChatSends /\ OnSendClick
    \/ \E r \in inflight : \E i \in HistoryResponses : ChatResolve(r, Responses[i])
    \/ Render
SpecHistory == Init /\ [][NextHistory]_vars

\* The whole shell with small inputs: voice mode, text mode, citations and the
\* two resets.  Frames and responses arrive between renders (React has
\* committed the previous handler's updates), and each kind of content is
\* bounded by MaxItems.
ShellToolResults == {2, 3}
ShellResponses   == {1, 4}
Next ==
    \/ OnToggleListening
    \/ StartRecordingResolved
    \/ StopRecordingResolved
    \/ /\ Committed
       /\ Len(currentAssistantTranscript) < MaxItems
       /\ OnReceivedResponseAudioTranscriptDelta(Deltas[2])
    \/ /\ Committed
       /\ Len(completedUserMessages) < MaxItems
       /\ OnReceivedInputAudioTranscriptionCompleted(Transcripts[2])
    \/ /\ Committed
       /\ Len(completedAssistantMessages) < MaxItems
       /\ OnReceivedResponseDone
    \/ \E i \in ShellToolResults :
          /\ Committed
          /\ Len(groundingFiles) < MaxItems
          /\ OnReceivedExtensionMiddleTierToolResponse(ToolResults[i])
    \/ OnTextChange(Drafts[1])
    \/ Len(sent) < MaxItems /\ OnSendClick
    \/ \E r \in inflight : \E i \in ShellResponses : Committed /\ ChatResolve(r, Responses[i])
    \/ OnFileSelected
    \/ OnNewSessionClick
    \/ \E answer \in BOOLEAN : HandleRestartConversation(answer)
    \/ Render
Spec == Init /\ [][Next]_vars

\* The components around the shell, each used on its own by the user while
\* time passes.
NextUi ==
    \/ OnTelemetryClick
    \/ OnTelemetryClose
    \/ OnTelemetryRefresh
    \/ \E i \in 1..Len(TelemetryOutcomes) : TelemetryFetchSettled(TelemetryOutcomes[i])
    \/ TimePasses
    \/ ThemeProviderMount
    \/ \E i \in 1..Len(Themes) : OnThemeSelected(Themes[i])
    \/ ToggleTheme

\* The page loads with any stored theme and any class list on the body.
UiInit ==
    /\ AppInit
    /\ TelemetryInit
    /\ theme = "glass"
    /\ themeMounted = FALSE
    /\ \E i \in 1..Len(StoredThemes) : storedTheme = StoredThemes[i]
    /\ \E i \in 1..Len(BodyClassNames) : bodyClassName = BodyClassNames[i]
    /\ VoiceSettingsInit
    /\ TranscriptPanelInit
    /\ SpeechInit(TRUE)
    /\ DialogsInit("")
    /\ ScriptsInit("start.sh", None, TRUE)
    /\ CaptureInit
SpecUi == UiInit /\ [][NextUi]_vars

\* The voice settings hook from any stored preferences.
NextVoiceSettings ==
    \/ UseVoiceSettings
    \/ \E i \in 1..Len(AvailableVoices), writable \in BOOLEAN :
          UpdateTextVoice(AvailableVoices[i], writable)
    \/ \E i \in 1..Len(AvailableVoices), writable \in BOOLEAN :
          UpdateRealtimeVoice(AvailableVoices[i], writable)
VoiceSettingsInitAny ==
    /\ AppInit
    /\ TelemetryInit
    /\ ThemeInit
    /\ selectedTextVoice = "alloy"
    /\ selectedRealtimeVoice = "alloy"
    /\ \E i \in 1..Len(StoredVoices) : storedTextVoice = StoredVoices[i]
    /\ \E i \in 1..Len(StoredVoices) : storedRealtimeVoice = StoredVoices[i]
    /\ voiceSettingsMounted = FALSE
    /\ voiceNotified = None
    /\ TranscriptPanelInit
    /\ SpeechInit(TRUE)
    /\ DialogsInit("")
    /\ ScriptsInit("start.sh", None, TRUE)
    /\ CaptureInit
SpecVoiceSettings == VoiceSettingsInitAny /\ [][NextVoiceSettings]_vars

\* The transcript panel and its parent.
NextTranscriptPanel ==
    \/ \E i \in 1..Len(PanelUserTexts) : PanelUserMessageCompleted(PanelUserTexts[i])
    \/ \E i \in 1..Len(PanelAssistantTexts) :
          PanelAssistantMessageCompleted(PanelAssistantTexts[i])
    \/ \E u \in {"", "q3"}, a \in {"", "r3"} : PanelLiveTurns(u, a)
    \/ \E i \in 1..Len(PanelUserTexts) : HandleUserTranscript(PanelUserTexts[i])
    \/ DownloadTranscript
SpecTranscriptPanel == Init /\ [][NextTranscriptPanel]_vars

\* The speech-to-text hook, its caller and the platform recognizer.
NextSpeech ==
    \/ SpeechStartListening
    \/ SpeechStopListening
    \/ RecognizerOnStart
    \/ \E text \in {"bonjour", "merci"}, isFinal \in BOOLEAN : RecognizerOnResult(text, isFinal)
    \/ \E errored \in BOOLEAN : RecognizerOnEnd(errored)
SpeechInitAny ==
    /\ AppInit
    /\ TelemetryInit
    /\ ThemeInit
    /\ VoiceSettingsInit
    /\ TranscriptPanelInit
    /\ \E supported \in BOOLEAN : SpeechInit(supported)
    /\ DialogsInit("")
    /\ ScriptsInit("start.sh", None, TRUE)
    /\ CaptureInit
SpecSpeech == SpeechInitAny /\ [][NextSpeech]_vars

\* The dialogs of the application, opened and closed in any order.
NextDialogs ==
    \/ \E d \in DialogSet : DialogOpened(d)
    \/ \E d \in DialogSet, cleanupRuns \in BOOLEAN : DialogClosed(d, cleanupRuns)
    \/ \E cleanupRuns \in BOOLEAN : EscapePressed(cleanupRuns)
    \/ \E d \in DialogSet : DialogRerendered(d)
DialogsInitAny ==
    /\ AppInit
    /\ TelemetryInit
    /\ ThemeInit
    /\ VoiceSettingsInit
    /\ TranscriptPanelInit
    /\ SpeechInit(TRUE)
    /\ \E i \in 1..Len(PageOverflows) : DialogsInit(PageOverflows[i])
    /\ ScriptsInit("start.sh", None, TRUE)
    /\ CaptureInit
SpecDialogs == DialogsInitAny /\ [][NextDialogs]_vars

\* One run of start.sh or of write_env.sh, every external command ending as
\* it may.
NextScripts ==
    \/ WriteEnvRun
    \/ \E i \in 1..Len(AzdOutputs) : WriteEnvLine(AzdOutputs[i])
    \/ StartCheckEnv
    \/ StartBootstrapDone
    \/ \E i \in 1..Len(StepCodes) : StartNpmInstall(StepCodes[i])
    \/ \E i, j \in 1..Len(StepCodes) : StartNpmBuild(StepCodes[i], StepCodes[j])
    \/ StartBackend
    \/ \E i \in 1..Len(StepCodes) : StartApi(StepCodes[i])
ScriptsInitAny ==
    /\ AppInit
    /\ TelemetryInit
    /\ ThemeInit
    /\ VoiceSettingsInit
    /\ TranscriptPanelInit
    /\ SpeechInit(TRUE)
    /\ DialogsInit("")
    /\ \E entry \in {"start.sh", "write_env.sh"}, azd \in BOOLEAN,
          file \in {None, Some(<<[key |-> "AZURE_TENANT_ID", value |-> "value"]>>)} :
          ScriptsInit(entry, file, azd)
    /\ CaptureInit
SpecScripts == ScriptsInitAny /\ [][NextScripts]_vars

\* The listening toggle with its awaits, audio frames, and the two controls
\* that invoke the toggle (new session, restart).
NextToggle ==
    \/ OnToggleListening
    \/ StartRecordingResolved
    \/ StartRecordingRejected
    \/ StopRecordingResolved
    \/ OnReceivedResponseAudioDelta
    \/ \E i \in 1..Len(Deltas) : OnReceivedResponseAudioTranscriptDelta(Deltas[i])
    \/ OnReceivedResponseDone
    \/ OnNewSessionClick
    \/ \E answer \in BOOLEAN : HandleRestartConversation(answer)
    \/ Render
SpecToggle == Init /\ [][NextToggle]_vars

\* The capture widget: presses of its button, renders, recognizer events, time.
NextCapture ==
    \/ HandleToggleCapture
    \/ CaptureRender
    \/ \E i \in 1..MaxRecognizers : CaptureOnStart(i)
    \/ \E i \in 1..MaxRecognizers, isFinal \in BOOLEAN, text \in 1..2 :
          CaptureOnResult(i, isFinal, text)
    \/ \E i \in 1..MaxRecognizers : CaptureOnError(i)
    \/ \E i \in 1..MaxRecognizers : CaptureOnEnd(i)
    \/ CaptureTimeoutFires
    \/ CaptureTimePasses
SpecCapture == Init /\ [][NextCapture]_vars

\* The same with what the platform guarantees: React commits a scheduled
\* render, a timeout that is due fires, every recognition that can end ends,
\* and time goes on.
SpecCaptureLive ==
    /\ SpecCapture
    /\ WF_vars(CaptureRender)
    /\ WF_vars(CaptureTimeoutFires)
    /\ WF_vars(\E i \in 1..MaxRecognizers : CaptureOnEnd(i))
    /\ WF_vars(CaptureTimePasses)

----------------------------------------------------------------------------
(* Properties *)

\* C1: handling a speech-started frame stops audio playback and leaves the
\* in-flight user transcript empty, and changes neither the completed user
\* list nor the completed assistant list.
BargeInStopsPlayback ==
    [][lastEvent'.type = "speech_started" =>
         /\ playerQueue' = 0
         /\ currentUserTranscript' = <<>>
         /\ completedUserMessages' = completedUserMessages
         /\ completedAssistantMessages' = completedAssistantMessages]_vars

\* A speech-started frame has just been handled in a conversation that
\* already holds completed user and assistant turns.
BargeInWithHistory ==
    /\ lastEvent.type = "speech_started"
    /\ completedUserMessages # <<>>
    /\ completedAssistantMessages # <<>>
    /\ playerQueue = 0

\* The frame just handled is a tool response whose tool_result parses as JSON.
ParsedToolResponse(e) ==
    /\ e.type = "tool_response"
    /\ e.tool_result.body.t = "json"
    /\ e.tool_result.marker.t # "trailing"

\* The citation list after the step is the list before it followed by one
\* file per source, in order, with the source's chunk id and chunk text.
SourcesAppended(sources) ==
    LET n == Len(groundingFiles) IN
    /\ Len(groundingFiles') = n + Len(sources)
    /\ SubSeq(groundingFiles', 1, n) = groundingFiles
    /\ \A k \in 1..Len(sources) :
          /\ groundingFiles'[n + k].id = sources[k].chunk_id
          /\ groundingFiles'[n + k].content = sources[k].chunk

\* C2: a tool response whose JSON carries a grounding_info value sets the
\* enhanced-grounding data to the parsed result, makes the enhanced panel
\* visible and appends its sources array to the citation list; a tool
\* response whose JSON carries no grounding_info value but a sources array
\* appends those sources and leaves the enhanced-grounding data and the
\* panel's visibility flag as they were.
EnhancedAndLegacyBranches ==
    [][ParsedToolResponse(lastEvent') =>
         LET result == lastEvent'.tool_result.body.v IN
         /\ Truthy(result.grounding_info) =>
               /\ enhancedGrounding' = Some(result)
               /\ isGroundingVisible'
               /\ IsArray(result.sources) => SourcesAppended(result.sources.v)
               /\ ~Truthy(result.sources) => groundingFiles' = groundingFiles
         /\ (~Truthy(result.grounding_info) /\ IsArray(result.sources)) =>
               /\ SourcesAppended(result.sources.v)
               /\ enhancedGrounding' = enhancedGrounding
               /\ isGroundingVisible' = isGroundingVisible]_vars

\* A legacy result has just been appended to a citation list that already
\* held the two sources of an enhanced result, whose panel is still open.
LegacyAfterEnhanced ==
    /\ ParsedToolResponse(lastEvent)
    /\ ~Truthy(lastEvent.tool_result.body.v.grounding_info)
    /\ IsArray(lastEvent.tool_result.body.v.sources)
    /\ enhancedGrounding # None
    /\ isGroundingVisible
    /\ Len(groundingFiles) = 3

\* The raw tool_result is human-readable text followed by a trailing
\* __METADATA__ line that holds a JSON array.
TextWithMetadataArray(e) ==
    /\ e.type = "tool_response"
    /\ e.tool_result.body.t = "text"
    /\ e.tool_result.marker.t = "trailing"
    /\ e.tool_result.marker.payload.t = "array"

\* C3: handling a tool response whose raw tool_result is human-readable text
\* followed by a trailing "__METADATA__: <JSON array>" line sets the RAG-source
\* list to exactly that array, whatever the list held and however the primary
\* parse of the tool result went.
MetadataMarkerReplacesRagSources ==
    [][TextWithMetadataArray(lastEvent') =>
         ragSources' = lastEvent'.tool_result.marker.payload.v]_vars

\* The response is a content-safety rejection.
ContentSafetyResponse(o) ==
    /\ o.t = "data"
    /\ o.data.error = "content_safety_violation" \/ o.data.error_type = "content_filter"

\* This step called the content-safety delegate once, with the message of
\* the response and the reason, action and documentation of its details.
SafetyDelegateInvoked(o) ==
    /\ Len(safetyCalls') = Len(safetyCalls) + 1
    /\ SubSeq(safetyCalls', 1, Len(safetyCalls)) = safetyCalls
    /\ LET d == safetyCalls'[Len(safetyCalls')] IN
        /\ o.data.message # <<>> => d.message = o.data.message
        /\ IF o.data.details = None
           THEN d.reason = <<>> /\ d.action = <<>> /\ d.documentation = <<>>
           ELSE /\ d.reason = o.data.details[1].reason
                /\ d.action = o.data.details[1].action
                /\ d.documentation = o.data.details[1].documentation

\* C4 (as stated): when a request of the audio-augmented session comes back
\* with a content-safety rejection, the delegate is invoked with the fields
\* of the response and the message list is the list as it was before the send.
ContentSafetyRestoresList ==
    [][(lastEvent'.type = "chat_resolve" /\ ContentSafetyResponse(lastEvent'.response)) =>
         /\ SafetyDelegateInvoked(lastEvent'.response)
         /\ messages' = lastEvent'.request.before]_vars

\* C4 (amended): when a request of the audio-augmented session comes back
\* with a content-safety rejection, the delegate is invoked with the fields
\* of the response, the generic error delegate is not, and the resolution
\* leaves the message list as it is: no assistant or error message of that
\* turn is in the list, and the user message appended when the send started
\* stays in it.
ContentSafetyAppendsNoReply ==
    [][(lastEvent'.type = "chat_resolve" /\ ContentSafetyResponse(lastEvent'.response)) =>
         LET r == lastEvent'.request IN
         /\ SafetyDelegateInvoked(lastEvent'.response)
         /\ errorCalls' = errorCalls
         /\ messages' = messages
         /\ Includes(messages', r.userMessage)
         /\ \A k \in 1..Len(messages') :
               messages'[k].timestamp = r.id => messages'[k].role = "user"]_vars

\* A content-safety rejection identified by error_type alone has resolved the
\* only request: the delegate was called and the list holds the user message.
ContentSafetyResolved ==
    /\ lastEvent.type = "chat_resolve"
    /\ ContentSafetyResponse(lastEvent.response)
    /\ lastEvent.response.data.error = ""
    /\ Len(safetyCalls) = 1
    /\ Len(messages) = 1
    /\ messages[1] = lastEvent.request.userMessage

\* The response is a failure other than a content-safety rejection.
GenericFailure(o) ==
    \/ o.t \in {"http", "reject", "badjson"}
    \/ o.t = "data" /\ ~ContentSafetyResponse(o) /\ o.data.error # ""

\* C5: in the audio-augmented session every failure other than a
\* content-safety rejection appends exactly one assistant message whose text
\* is the error prefix followed by the failure reason (the status line for a
\* non-2xx status, the error string of the payload), passes that reason to
\* the generic error delegate and does not call the content-safety delegate.
GenericFailureAppendsOneError ==
    [][(lastEvent'.type = "chat_resolve" /\ GenericFailure(lastEvent'.response)) =>
         LET o == lastEvent'.response
             n == Len(messages)
         IN  /\ Len(messages') = n + 1
             /\ SubSeq(messages', 1, n) = messages
             /\ messages'[n + 1].role = "assistant"
             /\ Len(errorCalls') = Len(errorCalls) + 1
             /\ SubSeq(errorCalls', 1, Len(errorCalls)) = errorCalls
             /\ LET reason == errorCalls'[Len(errorCalls')] IN
                 /\ reason # <<>>
                 /\ messages'[n + 1].content = <<"Sorry, I encountered an error: ">> \o reason
                 /\ o.t = "http" => reason = <<"HTTP error! status: ", o.status>>
                 /\ o.t = "data" => reason = <<o.data.error>>
             /\ safetyCalls' = safetyCalls]_vars

\* A non-2xx status has resolved a request: one error message follows the
\* user message, the error delegate was called, the safety delegate was not.
HttpFailureResolved ==
    /\ lastEvent.type = "chat_resolve"
    /\ lastEvent.response.t = "http"
    /\ Len(messages) = 2
    /\ messages[2].role = "assistant"
    /\ Len(errorCalls) = 1
    /\ safetyCalls = <<>>

\* The requests of a session that have been issued and have not come back.
Outstanding(hook) == {r \in inflight : r.hook = hook}

\* C9: whenever a request of either chat session completes, in any way, the
\* session's loading flag and, in the audio-augmented session, its
\* generating-audio flag are false afterwards; and a flag is set only while a
\* request of its session is outstanding.
InFlightFlagsCleared ==
    /\ [](/\ isLoading => Outstanding("audio") # {}
          /\ isGeneratingAudio => Outstanding("audio") # {}
          /\ plainIsLoading => Outstanding("plain") # {})
    /\ [][/\ lastEvent'.type = "chat_resolve" => ~isLoading' /\ ~isGeneratingAudio'
          /\ lastEvent'.type = "plain_resolve" => ~plainIsLoading']_vars

\* A request that asked for audio has failed with a network error and both
\* flags of its session are down again.
FlagsDownAfterRejection ==
    /\ lastEvent.type = "chat_resolve"
    /\ lastEvent.response.t = "reject"
    /\ lastEvent.request.generateAudio
    /\ ~isLoading
    /\ ~isGeneratingAudio

Replies(j) ==
    {i \in 1..Len(messages) :
        /\ messages[i].timestamp = j
        /\ messages[i].role = "assistant"
        /\ "voice" \in DOMAIN messages[i]}

\* C6: when the first n exchanges of the audio-augmented session have all
\* succeeded, the history sent with send n+1 has exactly 2n entries, each
\* with a role and a content and nothing else: for each exchange in order,
\* the user entry with the text that was sent, then the assistant entry with
\* the text of the reply.
HistoryIsProjectedConversation ==
    \A k \in 1..Len(sent) :
        (\A j \in 1..(k - 1) : Replies(j) # {}) =>
            LET h == sent[k].body.history IN
            /\ Len(h) = 2 * (k - 1)
            /\ \A i \in 1..Len(h) : DOMAIN h[i] = {"role", "content"}
            /\ \A j \in 1..(k - 1) :
                  /\ h[2 * j - 1].role = "user"
                  /\ h[2 * j - 1].content = sent[j].body.message
                  /\ h[2 * j].role = "assistant"
                  /\ \A i \in Replies(j) : h[2 * j].content = messages[i].content

\* The fourth send, after three successful exchanges, carried six entries.
FourthSendCarriesSix ==
    /\ Len(sent) = 4
    /\ \A j \in 1..3 : Replies(j) # {}
    /\ Len(sent[4].body.history) = 6

\* Everything a reset is to clear is empty.
ConversationEmpty ==
    /\ messages = <<>>
    /\ completedUserMessages = <<>>
    /\ completedAssistantMessages = <<>>
    /\ currentUserTranscript = <<>>
    /\ currentAssistantTranscript = <<>>
    /\ textMessage = <<>>
    /\ groundingFiles = <<>>
    /\ selectedFile = None
    /\ ragSources = <<>>
    /\ enhancedGrounding = None
    /\ callHistoryMetadata = None

\* C7: new session leaves chat messages, completed and in-flight transcripts,
\* text draft, grounding files, selected file, RAG sources, enhanced grounding
\* and call-history data empty; if recording was active a stop of the recorder
\* is pending afterwards, and the completion of a stop leaves recording
\* inactive; with no recording active it touches neither the recorder nor the
\* player and raises nothing.  Invoked again right after, also while the stop
\* of the first invocation is pending, it changes none of that.
NewSessionIsIdempotent ==
    /\ [][lastEvent'.type = "new_session" =>
            /\ ConversationEmpty'
            /\ isRecording' => pendingStop' > 0
            /\ ~isRecording => UNCHANGED <<isRecording, audioVars>>
            /\ unhandled' = unhandled
            /\ lastEvent.type = "new_session" =>
                  UNCHANGED <<shellVars, chatVars, sessionStarted, pendingStart,
                              recorderActive, playerQueue>>]_vars
    /\ [][lastEvent'.type = "stop_resolved" => ~isRecording']_vars

\* New session has been invoked a second time while recording, with the stop
\* requested by the first invocation still pending.
SecondNewSessionWhileStopping ==
    /\ lastEvent.type = "new_session"
    /\ isRecording
    /\ pendingStop = 2
    /\ ConversationEmpty

\* Something a reset clears is not empty.
SomethingToLose ==
    \/ messages # <<>>
    \/ completedUserMessages # <<>>
    \/ completedAssistantMessages # <<>>
    \/ currentUserTranscript # <<>>
    \/ currentAssistantTranscript # <<>>
    \/ textMessage # <<>>
    \/ groundingFiles # <<>>
    \/ ragSources # <<>>
    \/ enhancedGrounding # None
    \/ callHistoryMetadata # None

\* Restart was declined: nothing but the record of the event changes.
DeclinedChangesNothing ==
    (lastEvent'.prompted /\ ~lastEvent'.confirmed) =>
        UNCHANGED <<shellVars, chatVars, plainVars, netVars, audioVars, view>>

\* C8 (as stated): restart prompts in every state where text chat messages,
\* a completed or in-flight transcript, the text draft, grounding files, RAG
\* sources, enhanced grounding or call-history data are non-empty, and a
\* declined prompt changes no state; new session clears without a prompt.
RestartAlwaysAsksFirst ==
    [][/\ lastEvent'.type = "restart" =>
            /\ SomethingToLose => lastEvent'.prompted
            /\ DeclinedChangesNothing
       /\ lastEvent'.type = "new_session" => ConversationEmpty']_vars

\* C8 (amended): restart prompts exactly when the text chat message list,
\* the completed-user list or the completed-assistant list is non-empty; a
\* declined prompt changes no state; confirmed or unprompted, restart clears
\* everything, so a text draft, an in-flight transcript, grounding files, a
\* selected file, enhanced grounding or call-history data that exist without
\* any of those three lists are discarded with no prompt.  New session
\* performs the same clearing and never prompts.
RestartAsksWhenMessagesExist ==
    [][/\ lastEvent'.type = "restart" =>
            /\ lastEvent'.prompted <=>
                  \/ messages # <<>>
                  \/ completedUserMessages # <<>>
                  \/ completedAssistantMessages # <<>>
            /\ DeclinedChangesNothing
            /\ (~lastEvent'.prompted \/ lastEvent'.confirmed) => ConversationEmpty'
       /\ lastEvent'.type = "new_session" => ConversationEmpty']_vars

\* The user has declined a restart of a conversation with a completed
\* assistant turn and grounding files: all of it is still there.
RestartDeclined ==
    /\ lastEvent.type = "restart"
    /\ lastEvent.prompted
    /\ ~lastEvent.confirmed
    /\ completedAssistantMessages # <<>>
    /\ groundingFiles # <<>>

\* C11: a tool response whose parsed JSON carries __CALL_HISTORY_METADATA__
\* as a non-empty array makes the call-history popup visible with the first
\* element of the array as its data; when the property is absent or an empty
\* array, the call-history data and the popup's visibility are unchanged.
CallHistoryShowsFirstCustomer ==
    [][ParsedToolResponse(lastEvent') =>
         LET ch == lastEvent'.tool_result.body.v.call_history IN
         /\ (IsArray(ch) /\ ch.v # <<>>) =>
               /\ callHistoryMetadata' = Some(ch.v[1])
               /\ isCallHistoryVisible'
         /\ (ch.t = "absent" \/ (IsArray(ch) /\ ch.v = <<>>)) =>
               UNCHANGED <<callHistoryMetadata, isCallHistoryVisible>>]_vars

\* The step shows the telemetry panel, which was hidden.
TelemetryOpens == ~isTelemetryVisible /\ isTelemetryVisible'

\* C12: each step that takes the telemetry panel from hidden to visible
\* issues exactly one telemetry fetch; any other step issues a fetch only if
\* it is the refresh control, and then exactly one; time passing, however
\* long the panel stays open, issues none.
TelemetryFetchesOnOpenAndRefreshOnly ==
    [][/\ TelemetryOpens => telemetryFetches' = telemetryFetches + 1
       /\ (telemetryFetches' # telemetryFetches) =>
            /\ telemetryFetches' = telemetryFetches + 1
            /\ TelemetryOpens \/ lastEvent'.type = "telemetry_refresh"
       /\ lastEvent'.type = "time_passes" => telemetryFetches' = telemetryFetches]_vars

\* The panel has been open for two timer periods after its first fetch
\* settled, and that fetch is still the only one.
TelemetryOpenForLong ==
    /\ isTelemetryVisible
    /\ clock = MaxElapsed
    /\ lastEvent.type = "time_passes"
    /\ telemetryPending = 0
    /\ telemetryFetches = 1

\* The theme that follows t in the cycle glass -> white -> black -> glass.
ThemeAfter(t) ==
    CASE t = "glass" -> "white"
      [] t = "white" -> "black"
      [] t = "black" -> "glass"

\* The theme classes on the body: the classes of the form theme-<name>.
ThemeClassesOnBody ==
    SelectSeq(bodyClassName, LAMBDA c : Len(c) = 2 /\ c[1] = "theme")

\* C13: a toggle moves the theme one step along glass -> white -> black ->
\* glass, so three toggles in a row return to the theme they started from;
\* and once the provider is mounted (whatever was stored, whatever classes the
\* body had) and after every change of theme, the body carries exactly one
\* theme-<name> class, the one of the current theme.
ThemeCyclesAndBodyClassFollows ==
    [][/\ lastEvent'.type = "theme_toggle" =>
            /\ theme' = ThemeAfter(theme)
            /\ ThemeAfter(ThemeAfter(theme')) = theme
       /\ lastEvent'.type = "theme_mount" =>
            theme' = (IF storedTheme \in {Some("glass"), Some("white"), Some("black")}
                      THEN storedTheme[1] ELSE "glass")
       /\ themeMounted' =>
            ThemeClassesOnBody' = << <<"theme", theme'>> >>]_vars

\* C13 witness: the toggle from black back to glass, on a body that came with
\* a stale theme class and a class that merely contained one.
ToggledBackToGlass ==
    /\ themeMounted
    /\ lastEvent.type = "theme_toggle"
    /\ lastEvent.from = "black"
    /\ theme = "glass"
    /\ \E i \in 1..Len(bodyClassName) : bodyClassName[i] = <<"card">>

\* A stored value that is one of the ten catalogue voices.
IsCatalogueVoice(saved) ==
    saved # None /\ \E i \in 1..Len(AvailableVoices) : AvailableVoices[i] = saved[1]

\* C14: setting the text voice to a catalogue voice persists it, and loading
\* the settings from storage yields the persisted voice when it is one of the
\* ten catalogue voices and alloy when the value is absent or is no catalogue
\* voice.
TextVoiceRoundTripsOrFallsBack ==
    [][/\ (lastEvent'.type = "voice_text_updated" /\ lastEvent'.persisted) =>
            storedTextVoice' = Some(lastEvent'.voice)
       /\ lastEvent'.type = "voice_settings_loaded" =>
            selectedTextVoice' = (IF IsCatalogueVoice(storedTextVoice)
                                  THEN storedTextVoice[1] ELSE "alloy")]_vars

\* What the hook does guarantee: a persisted catalogue voice comes back, and
\* an absent or empty value gives alloy.
TextVoiceRoundTrips ==
    [][/\ (lastEvent'.type = "voice_text_updated" /\ lastEvent'.persisted) =>
            storedTextVoice' = Some(lastEvent'.voice)
       /\ lastEvent'.type = "voice_settings_loaded" =>
            /\ IsCatalogueVoice(storedTextVoice) => selectedTextVoice' = storedTextVoice[1]
            /\ storedTextVoice \in {None, Some("")} => selectedTextVoice' = "alloy"]_vars

\* The completed messages in chronological order: user message i, then
\* assistant message i, then user message i + 1, from index i on.
RECURSIVE ChronologicalLines(_, _, _)
ChronologicalLines(users, assistants, i) ==
    IF i > Len(users) /\ i > Len(assistants) THEN <<>>
    ELSE (IF i <= Len(users) THEN << [role |-> "user", content |-> <<users[i]>>] >> ELSE <<>>)
           \o (IF i <= Len(assistants)
               THEN << [role |-> "assistant", content |-> <<assistants[i]>>] >> ELSE <<>>)
           \o ChronologicalLines(users, assistants, i + 1)

\* The lines of the non-empty live turns, the user's in the quoting format.
LiveLines ==
    (IF panelCurrentUserInput # ""
     THEN << [role |-> "user",
              content |-> <<"utilisateur : \"", panelCurrentUserInput, "\"">>] >>
     ELSE <<>>)
      \o (IF panelCurrentAssistantResponse # ""
          THEN << [role |-> "assistant", content |-> <<panelCurrentAssistantResponse>>] >>
          ELSE <<>>)

\* The lines of the captured utterances the list holds.
CapturedLines ==
    LET captured == SelectSeq(transcriptMessages, LAMBDA m : m.id = "captured")
    IN  [i \in 1..Len(captured) |-> [role |-> "user", content |-> captured[i].content]]

\* The panel was handed two completed user messages, one completed assistant
\* message and a live user input only.
TwoOneAndLiveUser ==
    /\ Len(panelUserMessages) = 2
    /\ Len(panelAssistantMessages) = 1
    /\ panelCurrentUserInput # ""
    /\ panelCurrentAssistantResponse = ""

\* C15: an export holds exactly one line per completed user message, per
\* completed assistant message and per non-empty live turn, separated by
\* blank lines, in chronological order (user i, assistant i, user i + 1, the
\* live lines last, the live user line in the quoting format); two completed
\* user messages, one assistant message and a live user input give four lines.
ExportIsCompletedThenLive ==
    [][(lastEvent'.type = "transcript_download"
          /\ ChronologicalLines(panelUserMessages, panelAssistantMessages, 1) \o LiveLines # <<>>) =>
         /\ transcriptExport' =
              Some([lines |-> ChronologicalLines(panelUserMessages, panelAssistantMessages, 1)
                                \o LiveLines,
                    separator |-> "\n\n"])
         /\ TwoOneAndLiveUser => Len(transcriptExport'[1].lines) = 4]_vars

\* C15 amended: the export holds the completed messages in chronological
\* order, then the captured utterances the list holds, then the live lines;
\* with no captured utterance in the list, two completed user messages, one
\* assistant message and a live user input give four lines.
ExportIsCompletedCapturedThenLive ==
    [][(lastEvent'.type = "transcript_download"
          /\ ChronologicalLines(panelUserMessages, panelAssistantMessages, 1)
               \o CapturedLines \o LiveLines # <<>>) =>
         /\ transcriptExport' =
              Some([lines |-> ChronologicalLines(panelUserMessages, panelAssistantMessages, 1)
                                \o CapturedLines \o LiveLines,
                    separator |-> "\n\n"])
         /\ (TwoOneAndLiveUser /\ CapturedLines = <<>>) =>
              Len(transcriptExport'[1].lines) = 4]_vars

\* C15 witness: the four-line export of two user messages, one assistant
\* message and a live user input.
FourLineExport ==
    /\ lastEvent.type = "transcript_download"
    /\ TwoOneAndLiveUser
    /\ CapturedLines = <<>>
    /\ transcriptExport # None
    /\ Len(transcriptExport[1].lines) = 4
    /\ transcriptExport[1].lines[4].content = <<"utilisateur : \"", "q3", "\"">>

\* The sends of the plain chat session issued so far.
PlainSends == {k \in 1..Len(sent) : sent[k].hook = "plain"}

\* C16: in the plain chat session, once every send issued so far has
\* completed (in a success or in a failure), the message list holds exactly
\* two entries per send, alternating user then assistant (or synthetic
\* error), and no message occurs twice.
PlainListHoldsTwoPerSend ==
    Outstanding("plain") = {} =>
        /\ Len(plainMessages) = 2 * Cardinality(PlainSends)
        /\ \A i \in 1..Len(plainMessages) :
              plainMessages[i].role = (IF i % 2 = 1 THEN "user" ELSE "assistant")
        /\ \A i, j \in 1..Len(plainMessages) :
              (/\ plainMessages[i].role = plainMessages[j].role
               /\ plainMessages[i].timestamp = plainMessages[j].timestamp) => i = j

\* C17: a start() of the speech-to-text session while the recognizer has been
\* started and has not yet ended or errored -- the window before its started
\* event included -- does not invoke the recognizer's start; and a stop()
\* while the recognizer is inactive changes nothing.
StartWhileActiveIsNoOp ==
    [][/\ (lastEvent'.type = "speech_start" /\ recognizerState # "idle") =>
            recognizerStartCalls' = recognizerStartCalls
       /\ (lastEvent'.type = "speech_stop" /\ recognizerState = "idle") =>
            UNCHANGED speechVars]_vars

\* The dialogs that are open.
OpenDialogs == {d \in DialogSet : dialogOpen[d]}

\* C18: whatever dialogs are opened and closed, in any order: while at least
\* one dialog is open the page scroll is locked and an escape-key handler is
\* bound, and once every dialog is closed the body's overflow is what it was
\* before the first open and no escape-key handler is bound.
ScrollLockFollowsOpenDialogs ==
    /\ OpenDialogs # {} => (bodyOverflow = "hidden" /\ EscapeHandlersBound > 0)
    /\ OpenDialogs = {} => (bodyOverflow = overflowAtLoad /\ EscapeHandlersBound = 0)

\* C19: when start.sh has ended after its bootstrap, its dependency install
\* or its build failed, its exit code is not zero; and after a failed install
\* or build neither backend process is started.
StartExitsNonzeroOnFailure ==
    /\ (startExit # None /\ failedSteps \cap {"bootstrap", "install", "build"} # {}) =>
          startExit[1] # 0
    /\ failedSteps \cap {"install", "build"} # {} => (~backendStarted /\ ~apiStarted)

\* C20: when a required value cannot be resolved, write_env.sh reports its
\* name, ends at once with a nonzero exit code and writes no further line; and
\* it never ends having written a line with an empty value for a required key.
WriteEnvAbortsOnMissingValue ==
    [][/\ (lastEvent'.type = "write_env_line" /\ lastEvent'.missing) =>
            /\ scriptStderr' = Append(scriptStderr, lastEvent'.key)
            /\ envExit' # None
            /\ envExit'[1] # 0
            /\ envFile' = envFile
       /\ envExit' # None =>
            \A i \in 1..Len(envFile'[1]) :
                envFile'[1][i].value = "" =>
                    \E j \in 1..Len(EnvLines) :
                        EnvLines[j].key = envFile'[1][i].key /\ ~EnvLines[j].required]_vars

\* The raw tool_result of the frame is not a JSON document.
InvalidJsonToolResponse(e) ==
    /\ e.type = "tool_response"
    /\ ~ParsedToolResponse(e)

\* C21: a tool-response frame whose tool_result is not valid JSON raises no
\* exception out of the handler and changes no state: the grounding files, the
\* enhanced grounding and its visibility, the call-history data and its
\* visibility, the RAG sources and all four transcripts stay as they were.
InvalidToolResultChangesNothing ==
    [][InvalidJsonToolResponse(lastEvent') =>
         /\ UNCHANGED <<groundingFiles, enhancedGrounding, isGroundingVisible,
                        callHistoryMetadata, isCallHistoryVisible, ragSources>>
         /\ UNCHANGED <<currentUserTranscript, currentAssistantTranscript,
                        completedUserMessages, completedAssistantMessages>>
         /\ unhandled' = unhandled]_vars

\* An invalid tool result that carries a trailing marker with a JSON array has
\* arrived while grounding files and an enhanced grounding were on display.
InvalidToolResultAfterGrounding ==
    /\ InvalidJsonToolResponse(lastEvent)
    /\ lastEvent.tool_result.marker.t = "trailing"
    /\ lastEvent.tool_result.marker.payload.t = "array"
    /\ groundingFiles # <<>>
    /\ enhancedGrounding # None
    /\ isGroundingVisible

\* C22: on response.done the in-flight assistant transcript is appended to the
\* completed assistant messages exactly when it is non-empty and differs from
\* the most recent completed entry (a text equal to an older entry is still
\* appended), and the in-flight assistant transcript is empty afterwards.
\* Stated for a frame that arrives after React has rendered the last delta.
ResponseDoneAppendsUnlessRepeatsLast ==
    [][(lastEvent'.type = "response_done" /\ Committed) =>
         LET cur == currentAssistantTranscript
             n   == Len(completedAssistantMessages)
             appended == cur # <<>> /\ (n = 0 \/ completedAssistantMessages[n] # cur)
         IN  /\ completedAssistantMessages' =
                    IF appended THEN Append(completedAssistantMessages, cur)
                    ELSE completedAssistantMessages
             /\ currentAssistantTranscript' = <<>>]_vars

\* C24: the listening toggle performs its steps in the stated order and sets
\* the recording flag last.  Start: open the realtime session, begin capture,
\* then (once capture has begun) reset playback and set the flag; when the
\* microphone fails nothing after the capture call runs and the flag is left
\* as it was.  Stop: stop capture, then stop playback, send the
\* input-audio-buffer clear frame and clear the flag.
ToggleStepsInOrder ==
    [][/\ (lastEvent'.type = "toggle" /\ lastEvent'.start) =>
             /\ lastEvent'.calls = <<"startSession", "startAudioRecording">>
             /\ sessionStarted'
             /\ UNCHANGED <<isRecording, playerQueue, recorderActive>>
       /\ lastEvent'.type = "start_resolved" =>
             /\ lastEvent'.calls = <<"resetAudioPlayer", "setIsRecording(true)">>
             /\ recorderActive' /\ playerQueue' = 0 /\ isRecording'
       /\ lastEvent'.type = "start_rejected" =>
             /\ lastEvent'.calls = <<>>
             /\ UNCHANGED <<isRecording, playerQueue, recorderActive>>
       /\ (lastEvent'.type = "toggle" /\ ~lastEvent'.start) =>
             /\ lastEvent'.calls = <<"stopAudioRecording">>
             /\ UNCHANGED <<isRecording, playerQueue, recorderActive>>
       /\ lastEvent'.type = "stop_resolved" =>
             /\ lastEvent'.calls =
                   <<"stopAudioPlayer", "inputAudioBufferClear", "setIsRecording(false)">>
             /\ ~recorderActive' /\ playerQueue' = 0 /\ ~isRecording'
      ]_vars

\* One start has failed on the microphone, and a recording that did start
\* has just been stopped: capture is down, playback is empty, the flag is off.
StoppedAfterFailedStart ==
    /\ lastEvent.type = "stop_resolved"
    /\ unhandled
    /\ sessionStarted
    /\ ~isRecording
    /\ ~recorderActive
    /\ playerQueue = 0

\* C25: whenever response.done commits an assistant entry, the entry is the
\* in-order concatenation of every transcript delta received since the
\* previous response.done or reset (the accumulated in-flight transcript):
\* no delta is dropped and none is carried over, also when the last delta and
\* response.done arrive back to back.
CommittedEntryIsAllDeltas ==
    [][(/\ lastEvent'.type = "response_done"
        /\ completedAssistantMessages' # completedAssistantMessages) =>
         completedAssistantMessages' =
             Append(completedAssistantMessages, currentAssistantTranscript)]_vars

\* C26: under any interleaving of invocations of the listening toggle (clicks,
\* new session, restart), also while an earlier invocation is still awaiting
\* the start or stop of capture, starts and stops strictly alternate: no start
\* begins while an earlier start is still awaited or capture is active with no
\* stop under way, no stop begins while an earlier stop is still awaited, and
\* once every invocation has settled the recording flag is true exactly when
\* capture is active.
TogglesAlternate ==
    [][/\ pendingStart' > pendingStart =>
             /\ pendingStart = 0
             /\ recorderActive => pendingStop > 0
       /\ pendingStop' > pendingStop => pendingStop = 0
       /\ (pendingStart' = 0 /\ pendingStop' = 0) => isRecording' = recorderActive'
      ]_vars

\* C27: after "new session" or a confirmed restart every piece of state that
\* was cleared stays empty until the user starts a new send or a new
\* recording: a late chat response or realtime frame of the discarded
\* conversation does not repopulate it.  Stated for the chat list: a send puts
\* its user message on the list at once, so a response that settles while the
\* list is empty belongs to a conversation that was cleared, and it must leave
\* the list and the last-audio data empty.
ClearedConversationStaysEmpty ==
    [][(lastEvent'.type = "chat_resolve" /\ messages = <<>>) =>
         /\ messages' = <<>>
         /\ lastAudioData' = None]_vars

\* C30: in the application shell the in-flight user transcript is empty in
\* every reachable state.
InFlightUserTranscriptAlwaysEmpty == currentUserTranscript = <<>>

\* A user utterance has just been transcribed and moved to the completed user
\* messages while the assistant's reply is being accumulated.
UtteranceCompletedDuringReply ==
    /\ lastEvent.type = "transcription_completed"
    /\ lastEvent.transcript # <<>>
    /\ completedUserMessages = <<lastEvent.transcript>>
    /\ currentAssistantTranscript # <<>>

\* C23: once the capture widget's recognizer is listening it is stopped
\* automatically no later than 30 seconds after listening began, even if the
\* user never stops it and however many interim results or re-renders
\* happen: no recognizer has been listening for more than the auto-stop delay
\* without stop() having been called on it.
ListeningStoppedWithinAutoStopDelay ==
    \A i \in 1..MaxRecognizers :
        (recognizers[i].state = "active" /\ recognizers[i].age > AutoStopTicks)
            => recognizers[i].stopRequested

\* A recognizer has been listening for the whole delay and an interim result
\* is on display; the user has not pressed stop (the capturing flag is still
\* set), and stop() has been called on the recognizer.
ListenedForWholeDelay ==
    /\ isCapturing
    /\ captureIsListening
    /\ captureInterimTranscript # 0
    /\ \E i \in 1..MaxRecognizers :
          /\ recognizers[i].state = "active"
          /\ recognizers[i].age >= AutoStopTicks
          /\ recognizers[i].stopRequested

\* C28: the capture widget cannot get stuck in the capturing state: whenever
\* the recognizer stops listening, for whatever reason, the capturing flag
\* eventually returns to false (and a press of the button then starts a new
\* capture).
CapturingFlagEventuallyClears ==
    (lastEvent.type = "capture_onend" /\ isCapturing) ~> ~isCapturing

\* C29: a recognition that was started stays active on the same recognizer
\* until a manual stop, an error, its natural end, an unmount or a change of
\* continuous / interimResults / language: a mere re-render of the widget
\* neither stops the recognition nor replaces the recognizer in the ref.
RerenderKeepsRecognition ==
    [][(/\ lastEvent'.type = "capture_render"
        /\ recognizers[recognitionRef].state \in {"starting", "active"}
        /\ ~recognizers[recognitionRef].stopRequested) =>
         /\ recognitionRef' = recognitionRef
         /\ ~recognizers'[recognitionRef].stopRequested]_vars

=============================================================================
